---- MODULE Spec2Model ----
(***************************************************************************)
(* A model of ebook-tools' core library: Format::from_path and             *)
(* EpubBook::open with its stages validate_mimetype, parse_container,      *)
(* parse_opf, detect_cover/resolve_cover and detect_drm.                   *)
(*                                                                         *)
(* Representation of the program's values:                                 *)
(*  - a Rust String whose characters the code inspects (file paths, XML   *)
(*    text content) is a sequence of one-character strings;                *)
(*  - a name inside the ZIP ("OEBPS/content.opf") is the sequence of its   *)
(*    '/'-separated segments, so opf_dir and format!("{opf_dir}{href}")    *)
(*    are computed on segments;                                            *)
(*  - a qualified XML name ("dc:title") is the sequence of its             *)
(*    ':'-separated parts, so local_name is computed on parts;             *)
(*  - text the code only trims, splits at whitespace or compares whole    *)
(*    (attribute values, element text) is the sequence of its whitespace   *)
(*    characters and its non-whitespace pieces;                            *)
(*  - Option<T> is a sequence of length 0 (None) or 1 (Some);              *)
(*  - an XML document is the sequence of events quick_xml's reader         *)
(*    yields for it; a syntax error is an event of type "Err".             *)
(***************************************************************************)
EXTENDS Integers, Sequences, FiniteSets, TLC

VARIABLES
    fs,               \* the file system open reads: [path, status, zip]
    pc,               \* position of the running call of EpubBook::open
    calls,            \* number of open calls started on fs
    ran,              \* stages the running call has executed, in order
    format,           \* open: let format
    warnings,         \* open: let mut warnings
    opf_path,         \* open: let opf_path
    pos,              \* parse_opf: number of events read from the reader
    epub_version,     \* parse_opf: let mut epub_version
    metadata,         \* parse_opf: let mut metadata
    in_metadata,      \* parse_opf: let mut in_metadata
    current_element,  \* parse_opf: let mut current_element
    current_text,     \* parse_opf: let mut current_text
    cover_meta_id,    \* parse_opf: let mut cover_meta_id
    manifest_items,   \* parse_opf: let mut manifest_items
    in_manifest,      \* parse_opf: let mut in_manifest
    cover_info,       \* open: cover_info returned by parse_opf
    drm_status,       \* open: let drm_status
    result,           \* what the running call returned (None while running)
    prev,             \* what the earlier calls on fs returned, in order
    covered           \* cover() called on the returned book: the file it
                      \* found at the book's path and what it returned

openVars == <<format, warnings, opf_path, cover_info, drm_status>>
scanVars == <<pos, epub_version, metadata, in_metadata, current_element,
              current_text, cover_meta_id, manifest_items, in_manifest>>
vars == <<fs, pc, calls, ran, openVars, scanVars, result, prev, covered>>

----------------------------------------------------------------------------
(* Option<T> *)

None == <<>>
Some(x) == <<x>>
IsSome(o) == Len(o) = 1
IsNone(o) == Len(o) = 0

----------------------------------------------------------------------------
(* Strings as character sequences *)

Last(s) == s[Len(s)]
Front(s) == SubSeq(s, 1, Len(s) - 1)

\* char::to_lowercase on the letters the model's paths use
LowerChar(c) ==
    CASE c = "A" -> "a" [] c = "B" -> "b" [] c = "E" -> "e" [] c = "I" -> "i"
      [] c = "K" -> "k" [] c = "M" -> "m" [] c = "O" -> "o" [] c = "P" -> "p"
      [] c = "T" -> "t" [] c = "U" -> "u" [] c = "W" -> "w" [] c = "X" -> "x"
      [] c = "Z" -> "z" [] OTHER -> c

to_lowercase(s) == [i \in 1..Len(s) |-> LowerChar(s[i])]

ends_with(s, suffix) ==
    /\ Len(s) >= Len(suffix)
    /\ SubSeq(s, Len(s) - Len(suffix) + 1, Len(s)) = suffix

\* index of the first / last occurrence of c in s, 0 when there is none
position(s, c) ==
    IF \E i \in 1..Len(s) : s[i] = c
    THEN CHOOSE i \in 1..Len(s) : s[i] = c /\ \A j \in 1..(i - 1) : s[j] /= c
    ELSE 0

rfind(s, c) ==
    IF \E i \in 1..Len(s) : s[i] = c
    THEN CHOOSE i \in 1..Len(s) : s[i] = c /\ \A j \in (i + 1)..Len(s) : s[j] /= c
    ELSE 0

RECURSIVE split(_, _)
split(s, c) ==
    LET i == position(s, c)
    IN  IF i = 0 THEN <<s>>
        ELSE <<SubSeq(s, 1, i - 1)>> \o split(SubSeq(s, i + 1, Len(s)), c)

s_epub == <<"e", "p", "u", "b">>
s_mobi == <<"m", "o", "b", "i">>
s_azw3 == <<"a", "z", "w", "3">>
s_kepub_epub == <<".", "k", "e", "p", "u", "b", ".", "e", "p", "u", "b">>
s_dotdot == <<".", ".">>
s_dot == <<".">>

----------------------------------------------------------------------------
(* std::path::Path, as Format::from_path uses it *)

\* Path::file_name: the last component when it is a normal one. Components
\* skip empty segments (repeated or trailing '/') and "." segments.
file_name(path) ==
    LET comps == SelectSeq(split(path, "/"), LAMBDA x : x /= <<>> /\ x /= s_dot)
    IN  IF comps = <<>> THEN None
        ELSE IF Last(comps) = s_dotdot THEN None
        ELSE Some(Last(comps))

\* Path::extension: the part of file_name after its last '.', None when the
\* name has no '.' or only a leading one.
path_extension(path) ==
    LET fname == file_name(path)
    IN  IF IsNone(fname) THEN None
        ELSE LET f == fname[1]
                 i == rfind(f, ".")
             IN  IF i = 0 \/ i = 1 THEN None
                 ELSE Some(SubSeq(f, i + 1, Len(f)))

----------------------------------------------------------------------------
(* Format (src/format.rs) *)

Format == {"Epub", "Kepub", "Mobi", "Azw3"}

\* a variant that matches the plain extension before the compound suffix
from_path_plain_first(path) ==
    LET e == path_extension(path)
        ext == IF IsNone(e) THEN <<>> ELSE to_lowercase(e[1])
    IN  CASE ext = s_epub -> Some("Epub")
          [] ext = s_mobi -> Some("Mobi")
          [] ext = s_azw3 -> Some("Azw3")
          [] ends_with(to_lowercase(path), s_kepub_epub) -> Some("Kepub")
          [] OTHER -> None

from_path(path) ==
    LET name == to_lowercase(path)
    IN  IF ends_with(name, s_kepub_epub) THEN Some("Kepub")
        ELSE LET e == path_extension(path)
             IN  IF IsNone(e) THEN None
                 ELSE LET ext == to_lowercase(e[1])
                      IN  CASE ext = s_epub -> Some("Epub")
                            [] ext = s_mobi -> Some("Mobi")
                            [] ext = s_azw3 -> Some("Azw3")
                            [] OTHER -> None

extension(f) ==
    CASE f = "Epub" -> s_epub
      [] f = "Kepub" -> SubSeq(s_kepub_epub, 2, 11)
      [] f = "Mobi" -> s_mobi
      [] f = "Azw3" -> s_azw3

----------------------------------------------------------------------------
(* Text the code only trims, splits at whitespace or compares whole: the    *)
(* sequence of its whitespace characters and its non-whitespace pieces.     *)

is_whitespace(c) == c \in {" ", "\n", "\t"}

RECURSIVE trim_start(_)
trim_start(s) ==
    IF s /= <<>> /\ is_whitespace(Head(s)) THEN trim_start(Tail(s)) ELSE s

RECURSIVE trim_end(_)
trim_end(s) ==
    IF s /= <<>> /\ is_whitespace(Last(s)) THEN trim_end(Front(s)) ELSE s

trim(s) == trim_end(trim_start(s))

\* str::split_whitespace: the maximal runs of non-whitespace elements
RECURSIVE split_whitespace(_)
split_whitespace(s) ==
    LET t == trim_start(s)
    IN  IF t = <<>> THEN <<>>
        ELSE LET n == IF \E i \in 1..Len(t) : is_whitespace(t[i])
                      THEN (CHOOSE i \in 1..Len(t) :
                                /\ is_whitespace(t[i])
                                /\ \A j \in 1..(i - 1) : ~is_whitespace(t[j])) - 1
                      ELSE Len(t)
             IN  <<SubSeq(t, 1, n)>> \o split_whitespace(SubSeq(t, n + 1, Len(t)))

\* str::contains for a pattern that is one piece of the text
contains(text, pattern) == \E i \in 1..Len(text) : text[i] = pattern

----------------------------------------------------------------------------
(* zip::ZipArchive: the entries in physical order. An entry is             *)
(*   [name, stored, size, utf8, text, events]:                             *)
(* utf8 says whether read_to_string succeeds, text is the string read,     *)
(* events what quick_xml's reader yields for that string.                  *)

n_mimetype == <<"mimetype">>
n_container == <<"META-INF", "container.xml">>
n_encryption == <<"META-INF", "encryption.xml">>
s_mimetype == <<"application/epub+zip">>

by_index(zip, i) == IF i + 1 <= Len(zip) THEN Some(zip[i + 1]) ELSE None

by_name(zip, name) ==
    IF \E i \in 1..Len(zip) : zip[i].name = name
    THEN Some(zip[CHOOSE i \in 1..Len(zip) : zip[i].name = name])
    ELSE None

----------------------------------------------------------------------------
(* quick_xml events: [type, name, attrs, text, ok] with type one of        *)
(* "Start", "End", "Empty", "Text", "Other" (comment, CDATA, declaration,  *)
(* ...) and "Err"; attrs a sequence of [key, value]; ok says whether       *)
(* unescape() succeeds on a Text event. Reading past the last event        *)
(* yields Eof.                                                             *)

\* local_name: the name after its first ':'
local_name(name) == IF Len(name) > 1 THEN Tail(name) ELSE name

\* the values of the attributes with this key, in attribute order
attr_values(ev, key) ==
    LET hits == SelectSeq(ev.attrs, LAMBDA a : a.key = key)
    IN  [i \in 1..Len(hits) |-> hits[i].value]

----------------------------------------------------------------------------
(* Warnings and errors: the message template and its arguments *)

Warning(kind, a, b) == [kind |-> kind, a |-> a, b |-> b]
Error(kind, msg, a) == [kind |-> kind, msg |-> msg, a |-> a]

W_EMPTY == "mimetype file: ZIP archive is empty"
W_FIRST == "mimetype file: first ZIP entry is '{}', expected 'mimetype'"
W_STORED == "mimetype file: should be stored uncompressed"
W_CONTENT == "mimetype file: expected 'application/epub+zip', got '{}'"
W_CONTAINER_MISSING == "META-INF/container.xml is missing"
W_CONTAINER_READ == "META-INF/container.xml: failed to read: {e}"
W_CONTAINER_XML == "META-INF/container.xml: XML parse error: {e}"
W_OPF_MISSING == "OPF file not found in ZIP: {opf_path}"
W_OPF_XML == "OPF parse error: {e}"
W_NO_TITLE == "OPF: missing required <dc:title>"
W_NO_LANGUAGE == "OPF: missing required <dc:language>"
W_COVER_META == "cover meta references item '{cover_id}' which is not in the manifest"
W_COVER_FILE == "cover image file not found in ZIP: {href}"
W_MANIFEST == "manifest item '{id}' references '{href}' which is not in the ZIP"

MimetypeWarnings == {W_EMPTY, W_FIRST, W_STORED, W_CONTENT}

----------------------------------------------------------------------------
(* validate_mimetype *)

validate_mimetype(zip, w) ==
    LET first == by_index(zip, 0)
    IN  IF IsNone(first) THEN Append(w, Warning(W_EMPTY, <<>>, <<>>))
        ELSE IF first[1].name /= n_mimetype
        THEN Append(w, Warning(W_FIRST, first[1].name, <<>>))
        ELSE LET w1 == IF ~first[1].stored
                       THEN Append(w, Warning(W_STORED, <<>>, <<>>))
                       ELSE w
                 entry == by_name(zip, n_mimetype)
             IN  IF /\ IsSome(entry)
                    /\ entry[1].utf8
                    /\ trim(entry[1].text) /= s_mimetype
                 THEN Append(w1, Warning(W_CONTENT, trim(entry[1].text), <<>>))
                 ELSE w1

----------------------------------------------------------------------------
(* parse_container: [warnings, ok, path, err] *)

RECURSIVE container_scan(_, _, _)
container_scan(doc, i, w) ==
    IF i > Len(doc)
    THEN [warnings |-> w, ok |-> FALSE, path |-> <<>>,
          err |-> Error("InvalidBook", "container.xml: no rootfile element found", <<>>)]
    ELSE LET ev == doc[i]
         IN  IF /\ ev.type \in {"Empty", "Start"}
                /\ ev.name = <<"rootfile">>
                /\ attr_values(ev, "full-path") /= <<>>
             THEN [warnings |-> w, ok |-> TRUE,
                   path |-> Head(attr_values(ev, "full-path")),
                   err |-> Error("", "", <<>>)]
             ELSE IF ev.type = "Err"
             THEN [warnings |-> Append(w, Warning(W_CONTAINER_XML, <<>>, <<>>)),
                   ok |-> FALSE, path |-> <<>>,
                   err |-> Error("InvalidBook", "failed to parse container.xml: {e}", <<>>)]
             ELSE container_scan(doc, i + 1, w)

\* a variant that returns the error of a missing entry without the warning
parse_container_no_missing_warning(zip, w) ==
    LET entry == by_name(zip, n_container)
    IN  IF IsNone(entry)
        THEN [warnings |-> w, ok |-> FALSE, path |-> <<>>,
              err |-> Error("InvalidBook", "META-INF/container.xml not found", <<>>)]
        ELSE IF ~entry[1].utf8
        THEN [warnings |-> Append(w, Warning(W_CONTAINER_READ, <<>>, <<>>)),
              ok |-> FALSE, path |-> <<>>,
              err |-> Error("InvalidBook", "failed to read container.xml: {e}", <<>>)]
        ELSE container_scan(entry[1].events, 1, w)

parse_container(zip, w) ==
    LET entry == by_name(zip, n_container)
    IN  IF IsNone(entry)
        THEN [warnings |-> Append(w, Warning(W_CONTAINER_MISSING, <<>>, <<>>)),
              ok |-> FALSE, path |-> <<>>,
              err |-> Error("InvalidBook", "META-INF/container.xml not found", <<>>)]
        ELSE IF ~entry[1].utf8
        THEN [warnings |-> Append(w, Warning(W_CONTAINER_READ, <<>>, <<>>)),
              ok |-> FALSE, path |-> <<>>,
              err |-> Error("InvalidBook", "failed to read container.xml: {e}", <<>>)]
        ELSE container_scan(entry[1].events, 1, w)

----------------------------------------------------------------------------
(* Metadata (src/metadata.rs) and the helpers of parse_opf *)

DefaultMetadata ==
    [title |-> None, authors |-> <<>>, description |-> None,
     publisher |-> None, language |-> None, isbn |-> None,
     publication_date |-> None, subjects |-> <<>>, series |-> None,
     series_index |-> None]

is_ascii_digit(c) == c \in {"0", "1", "2", "3", "4", "5", "6", "7", "8", "9"}

\* a variant that accepts any text with at least ten digits or X
looks_like_isbn_at_least_ten(s) ==
    LET digits == SelectSeq(s, LAMBDA c : is_ascii_digit(c) \/ c = "X")
    IN  Len(digits) >= 10

looks_like_isbn(s) ==
    LET digits == SelectSeq(s, LAMBDA c : is_ascii_digit(c) \/ c = "X")
    IN  Len(digits) = 10 \/ Len(digits) = 13

\* str::parse::<f64>().ok() on the numerals the model's documents use; an
\* f64 is its value in tenths
parse_f64(c) ==
    CASE c = <<"1">> -> Some(10)
      [] c = <<"1.0">> -> Some(10)
      [] c = <<"2">> -> Some(20)
      [] c = <<"2.5">> -> Some(25)
      [] OTHER -> None

\* the OPF's directory: the segments before the last '/'
opf_dir_of(path) == Front(path)

\* the last value a `for attr in e.attributes().flatten()` loop assigns for
\* this key, dflt when the element has no such attribute
last_attr(ev, key, dflt) ==
    LET vs == attr_values(ev, key)
    IN  IF vs = <<>> THEN dflt ELSE Last(vs)

\* a variant in which every passing identifier overwrites the ISBN
route_isbn_overwrites(md, elem, text) ==
    CASE elem = <<"title">> -> [md EXCEPT !.title = Some(text)]
      [] elem = <<"creator">> -> [md EXCEPT !.authors = Append(@, text)]
      [] elem = <<"description">> -> [md EXCEPT !.description = Some(text)]
      [] elem = <<"publisher">> -> [md EXCEPT !.publisher = Some(text)]
      [] elem = <<"language">> -> [md EXCEPT !.language = Some(text)]
      [] elem = <<"identifier">> ->
            IF looks_like_isbn(text)
            THEN [md EXCEPT !.isbn = Some(text)]
            ELSE md
      [] elem = <<"date">> -> [md EXCEPT !.publication_date = Some(text)]
      [] elem = <<"subject">> -> [md EXCEPT !.subjects = Append(@, text)]
      [] OTHER -> md

\* the match on the current element's name at an end tag
route(md, elem, text) ==
    CASE elem = <<"title">> -> [md EXCEPT !.title = Some(text)]
      [] elem = <<"creator">> -> [md EXCEPT !.authors = Append(@, text)]
      [] elem = <<"description">> -> [md EXCEPT !.description = Some(text)]
      [] elem = <<"publisher">> -> [md EXCEPT !.publisher = Some(text)]
      [] elem = <<"language">> -> [md EXCEPT !.language = Some(text)]
      [] elem = <<"identifier">> ->
            IF IsNone(md.isbn) /\ looks_like_isbn(text)
            THEN [md EXCEPT !.isbn = Some(text)]
            ELSE md
      [] elem = <<"date">> -> [md EXCEPT !.publication_date = Some(text)]
      [] elem = <<"subject">> -> [md EXCEPT !.subjects = Append(@, text)]
      [] OTHER -> md

\* the match on a <meta name content> element's name
route_meta(md, n, c) ==
    CASE n = <<"calibre:series">> -> [md EXCEPT !.series = Some(c)]
      [] n = <<"calibre:series_index">> -> [md EXCEPT !.series_index = parse_f64(c)]
      [] OTHER -> md

----------------------------------------------------------------------------
(* resolve_cover and detect_cover: [cover, warnings] *)

\* a variant that records the full path whichever name the entry was
\* found under
resolve_cover_records_full_path(zip, full_path, href, w) ==
    IF IsSome(by_name(zip, full_path))
    THEN [cover |-> Some([href |-> full_path, size |-> by_name(zip, full_path)[1].size]),
          warnings |-> w]
    ELSE IF IsSome(by_name(zip, href))
    THEN [cover |-> Some([href |-> full_path, size |-> by_name(zip, href)[1].size]),
          warnings |-> w]
    ELSE [cover |-> None, warnings |-> Append(w, Warning(W_COVER_FILE, href, <<>>))]

resolve_cover(zip, full_path, href, w) ==
    IF IsSome(by_name(zip, full_path))
    THEN [cover |-> Some([href |-> full_path, size |-> by_name(zip, full_path)[1].size]),
          warnings |-> w]
    ELSE IF IsSome(by_name(zip, href))
    THEN [cover |-> Some([href |-> href, size |-> by_name(zip, href)[1].size]),
          warnings |-> w]
    ELSE [cover |-> None, warnings |-> Append(w, Warning(W_COVER_FILE, href, <<>>))]

has_cover_image(props) ==
    /\ IsSome(props)
    /\ \E i \in 1..Len(split_whitespace(props[1])) :
           split_whitespace(props[1])[i] = <<"cover-image">>

\* a variant of strategy 2 that takes the last flagged item
cover_by_properties_last(zip, opf_dir, items, w) ==
    IF \E i \in 1..Len(items) : has_cover_image(items[i].properties)
    THEN LET i == CHOOSE k \in 1..Len(items) :
                      /\ has_cover_image(items[k].properties)
                      /\ \A j \in (k + 1)..Len(items) : ~has_cover_image(items[j].properties)
         IN  resolve_cover(zip, opf_dir \o items[i].href, items[i].href, w)
    ELSE [cover |-> None, warnings |-> w]

\* Strategy 2: manifest item with properties="cover-image"
cover_by_properties(zip, opf_dir, items, w) ==
    IF \E i \in 1..Len(items) : has_cover_image(items[i].properties)
    THEN LET i == CHOOSE k \in 1..Len(items) :
                      /\ has_cover_image(items[k].properties)
                      /\ \A j \in 1..(k - 1) : ~has_cover_image(items[j].properties)
         IN  resolve_cover(zip, opf_dir \o items[i].href, items[i].href, w)
    ELSE [cover |-> None, warnings |-> w]

\* a variant that tries the cover-image property before the cover meta
detect_cover_properties_first(zip, opf_dir, meta_id, items, w) ==
    IF \E i \in 1..Len(items) : has_cover_image(items[i].properties)
    THEN cover_by_properties(zip, opf_dir, items, w)
    ELSE IF IsSome(meta_id)
    THEN IF \E i \in 1..Len(items) : items[i].id = meta_id[1]
         THEN LET i == CHOOSE k \in 1..Len(items) :
                           /\ items[k].id = meta_id[1]
                           /\ \A j \in 1..(k - 1) : items[j].id /= meta_id[1]
              IN  resolve_cover(zip, opf_dir \o items[i].href, items[i].href, w)
         ELSE [cover |-> None,
               warnings |-> Append(w, Warning(W_COVER_META, meta_id[1], <<>>))]
    ELSE [cover |-> None, warnings |-> w]

\* a variant that goes on to the cover-image property when the file of the
\* cover meta's item is missing
detect_cover_falls_back(zip, opf_dir, meta_id, items, w) ==
    IF IsSome(meta_id)
    THEN IF \E i \in 1..Len(items) : items[i].id = meta_id[1]
         THEN LET i == CHOOSE k \in 1..Len(items) :
                           /\ items[k].id = meta_id[1]
                           /\ \A j \in 1..(k - 1) : items[j].id /= meta_id[1]
                  r == resolve_cover(zip, opf_dir \o items[i].href, items[i].href, w)
              IN  IF IsSome(r.cover) THEN r
                  ELSE cover_by_properties(zip, opf_dir, items, r.warnings)
         ELSE cover_by_properties(zip, opf_dir, items,
                                  Append(w, Warning(W_COVER_META, meta_id[1], <<>>)))
    ELSE cover_by_properties(zip, opf_dir, items, w)

\* a variant that stops at a cover meta that names no manifest item
detect_cover_meta_miss_is_final(zip, opf_dir, meta_id, items, w) ==
    IF IsSome(meta_id)
    THEN IF \E i \in 1..Len(items) : items[i].id = meta_id[1]
         THEN LET i == CHOOSE k \in 1..Len(items) :
                           /\ items[k].id = meta_id[1]
                           /\ \A j \in 1..(k - 1) : items[j].id /= meta_id[1]
              IN  resolve_cover(zip, opf_dir \o items[i].href, items[i].href, w)
         ELSE [cover |-> None,
               warnings |-> Append(w, Warning(W_COVER_META, meta_id[1], <<>>))]
    ELSE cover_by_properties(zip, opf_dir, items, w)

detect_cover(zip, opf_dir, meta_id, items, w) ==
    IF IsSome(meta_id)
    THEN IF \E i \in 1..Len(items) : items[i].id = meta_id[1]
         THEN LET i == CHOOSE k \in 1..Len(items) :
                           /\ items[k].id = meta_id[1]
                           /\ \A j \in 1..(k - 1) : items[j].id /= meta_id[1]
              IN  resolve_cover(zip, opf_dir \o items[i].href, items[i].href, w)
         ELSE cover_by_properties(zip, opf_dir, items,
                                  Append(w, Warning(W_COVER_META, meta_id[1], <<>>)))
    ELSE cover_by_properties(zip, opf_dir, items, w)

\* a variant of the loop that goes through the items from the last one
RECURSIVE manifest_check_from_the_last(_, _, _, _)
manifest_check_from_the_last(zip, opf_dir, items, w) ==
    IF items = <<>> THEN w
    ELSE LET it == items[Len(items)]
             miss == /\ IsNone(by_name(zip, opf_dir \o it.href))
                     /\ IsNone(by_name(zip, it.href))
         IN  manifest_check_from_the_last(zip, opf_dir, SubSeq(items, 1, Len(items) - 1),
                            IF miss THEN Append(w, Warning(W_MANIFEST, it.id, it.href))
                            ELSE w)

\* a variant of the loop that looks for opf_dir + href only
RECURSIVE manifest_check_full_path_only(_, _, _, _)
manifest_check_full_path_only(zip, opf_dir, items, w) ==
    IF items = <<>> THEN w
    ELSE LET it == Head(items)
             miss == IsNone(by_name(zip, opf_dir \o it.href))
         IN  manifest_check_full_path_only(zip, opf_dir, Tail(items),
                            IF miss THEN Append(w, Warning(W_MANIFEST, it.id, it.href))
                            ELSE w)

\* the loop "Validate manifest items reference files in ZIP"
RECURSIVE manifest_check(_, _, _, _)
manifest_check(zip, opf_dir, items, w) ==
    IF items = <<>> THEN w
    ELSE LET it == Head(items)
             miss == /\ IsNone(by_name(zip, opf_dir \o it.href))
                     /\ IsNone(by_name(zip, it.href))
         IN  manifest_check(zip, opf_dir, Tail(items),
                            IF miss THEN Append(w, Warning(W_MANIFEST, it.id, it.href))
                            ELSE w)

----------------------------------------------------------------------------
(* DrmStatus (src/drm.rs) and detect_drm *)

DrmNone == [status |-> "None", scheme |-> "", other |-> <<>>]
DrmUnknown == [status |-> "Unknown", scheme |-> "", other |-> <<>>]
Protected(scheme, other) == [status |-> "Protected", scheme |-> scheme, other |-> other]

A_IDPF == <<"http://www.idpf.org/2008/embedding">>
A_ADOBE_RC == <<"http://ns.adobe.com/pdf/enc#RC">>

is_font_obfuscation(alg) == alg = A_IDPF \/ alg = A_ADOBE_RC

\* the event loop of detect_drm: [ok, algorithms]
RECURSIVE drm_scan(_, _, _)
drm_scan(doc, i, algorithms) ==
    IF i > Len(doc) THEN [ok |-> TRUE, algorithms |-> algorithms]
    ELSE LET ev == doc[i]
         IN  IF ev.type = "Err" THEN [ok |-> FALSE, algorithms |-> algorithms]
             ELSE IF /\ ev.type \in {"Empty", "Start"}
                     /\ local_name(ev.name) = <<"EncryptionMethod">>
             THEN drm_scan(doc, i + 1, algorithms \o attr_values(ev, "Algorithm"))
             ELSE drm_scan(doc, i + 1, algorithms)

\* a variant that looks for the Kobo string before the Adobe ones
detect_drm_kobo_first(zip) ==
    LET entry == by_name(zip, n_encryption)
    IN  IF IsNone(entry) THEN DrmNone
        ELSE IF ~entry[1].utf8 THEN DrmUnknown
        ELSE LET xml_content == entry[1].text
                 has_adobe == \/ contains(xml_content, "urn:adobe:ns:adept")
                              \/ contains(xml_content, "http://ns.adobe.com/adept")
                 has_kobo == contains(xml_content, "urn:kobo:")
                 scanned == drm_scan(entry[1].events, 1, <<>>)
                 algorithms == scanned.algorithms
                 schemes == SelectSeq(algorithms, LAMBDA a : ~is_font_obfuscation(a))
             IN  IF has_kobo THEN Protected("KoboProtected", <<>>)
                 ELSE IF has_adobe THEN Protected("AdobeAdept", <<>>)
                 ELSE IF ~scanned.ok THEN DrmUnknown
                 ELSE IF algorithms = <<>> THEN DrmUnknown
                 ELSE IF \A i \in 1..Len(algorithms) : is_font_obfuscation(algorithms[i])
                 THEN DrmNone
                 ELSE Protected("Other",
                                IF schemes /= <<>> THEN Head(schemes) ELSE <<"unknown">>)

\* a variant that names the first algorithm read, font obfuscation or not
detect_drm_first_algorithm(zip) ==
    LET entry == by_name(zip, n_encryption)
    IN  IF IsNone(entry) THEN DrmNone
        ELSE IF ~entry[1].utf8 THEN DrmUnknown
        ELSE LET xml_content == entry[1].text
                 has_adobe == \/ contains(xml_content, "urn:adobe:ns:adept")
                              \/ contains(xml_content, "http://ns.adobe.com/adept")
                 has_kobo == contains(xml_content, "urn:kobo:")
                 scanned == drm_scan(entry[1].events, 1, <<>>)
                 algorithms == scanned.algorithms
                 schemes == SelectSeq(algorithms, LAMBDA a : ~is_font_obfuscation(a))
             IN  IF has_adobe THEN Protected("AdobeAdept", <<>>)
                 ELSE IF has_kobo THEN Protected("KoboProtected", <<>>)
                 ELSE IF ~scanned.ok THEN DrmUnknown
                 ELSE IF algorithms = <<>> THEN DrmUnknown
                 ELSE IF \A i \in 1..Len(algorithms) : is_font_obfuscation(algorithms[i])
                 THEN DrmNone
                 ELSE Protected("Other",
                                Head(algorithms))

\* a variant that classifies by the algorithms read before a syntax error
detect_drm_keeps_read_algorithms(zip) ==
    LET entry == by_name(zip, n_encryption)
    IN  IF IsNone(entry) THEN DrmNone
        ELSE IF ~entry[1].utf8 THEN DrmUnknown
        ELSE LET xml_content == entry[1].text
                 has_adobe == \/ contains(xml_content, "urn:adobe:ns:adept")
                              \/ contains(xml_content, "http://ns.adobe.com/adept")
                 has_kobo == contains(xml_content, "urn:kobo:")
                 scanned == drm_scan(entry[1].events, 1, <<>>)
                 algorithms == scanned.algorithms
                 schemes == SelectSeq(algorithms, LAMBDA a : ~is_font_obfuscation(a))
             IN  IF has_adobe THEN Protected("AdobeAdept", <<>>)
                 ELSE IF has_kobo THEN Protected("KoboProtected", <<>>)
                 ELSE IF algorithms = <<>> THEN DrmUnknown
                 ELSE IF \A i \in 1..Len(algorithms) : is_font_obfuscation(algorithms[i])
                 THEN DrmNone
                 ELSE Protected("Other",
                                IF schemes /= <<>> THEN Head(schemes) ELSE <<"unknown">>)

\* a variant that reports the placeholder scheme when no algorithm was read
detect_drm_placeholder(zip) ==
    LET entry == by_name(zip, n_encryption)
    IN  IF IsNone(entry) THEN DrmNone
        ELSE IF ~entry[1].utf8 THEN DrmUnknown
        ELSE LET xml_content == entry[1].text
                 has_adobe == \/ contains(xml_content, "urn:adobe:ns:adept")
                              \/ contains(xml_content, "http://ns.adobe.com/adept")
                 has_kobo == contains(xml_content, "urn:kobo:")
                 scanned == drm_scan(entry[1].events, 1, <<>>)
                 algorithms == scanned.algorithms
                 schemes == SelectSeq(algorithms, LAMBDA a : ~is_font_obfuscation(a))
             IN  IF has_adobe THEN Protected("AdobeAdept", <<>>)
                 ELSE IF has_kobo THEN Protected("KoboProtected", <<>>)
                 ELSE IF ~scanned.ok THEN DrmUnknown
                 ELSE IF algorithms = <<>> THEN Protected("Other", <<"unknown">>)
                 ELSE IF \A i \in 1..Len(algorithms) : is_font_obfuscation(algorithms[i])
                 THEN DrmNone
                 ELSE Protected("Other",
                                IF schemes /= <<>> THEN Head(schemes) ELSE <<"unknown">>)

detect_drm(zip) ==
    LET entry == by_name(zip, n_encryption)
    IN  IF IsNone(entry) THEN DrmNone
        ELSE IF ~entry[1].utf8 THEN DrmUnknown
        ELSE LET xml_content == entry[1].text
                 has_adobe == \/ contains(xml_content, "urn:adobe:ns:adept")
                              \/ contains(xml_content, "http://ns.adobe.com/adept")
                 has_kobo == contains(xml_content, "urn:kobo:")
                 scanned == drm_scan(entry[1].events, 1, <<>>)
                 algorithms == scanned.algorithms
                 schemes == SelectSeq(algorithms, LAMBDA a : ~is_font_obfuscation(a))
             IN  IF has_adobe THEN Protected("AdobeAdept", <<>>)
                 ELSE IF has_kobo THEN Protected("KoboProtected", <<>>)
                 ELSE IF ~scanned.ok THEN DrmUnknown
                 ELSE IF algorithms = <<>> THEN DrmUnknown
                 ELSE IF \A i \in 1..Len(algorithms) : is_font_obfuscation(algorithms[i])
                 THEN DrmNone
                 ELSE Protected("Other",
                                IF schemes /= <<>> THEN Head(schemes) ELSE <<"unknown">>)

----------------------------------------------------------------------------
(* EpubBook and the value open returns *)

NoBook ==
    [path |-> <<>>, format |-> "", epub_version |-> None,
     metadata |-> DefaultMetadata, drm_status |-> DrmNone,
     cover_info |-> None, warnings |-> <<>>]

Ok(book) == Some([ok |-> TRUE, err |-> Error("", "", <<>>), book |-> book])
Err(e) == Some([ok |-> FALSE, err |-> e, book |-> NoBook])

----------------------------------------------------------------------------
(* EpubBook::open, one action per stage *)

\* let format = Format::from_path(path).ok_or_else(UnknownFormat)?
OpenClassify ==
    /\ pc = "open"
    /\ ran' = Append(ran, "from_path")
    /\ IF IsNone(from_path(fs.path))
       THEN /\ result' = Err(Error("UnknownFormat", "unknown format for path: {0}", fs.path))
            /\ pc' = "done"
            /\ UNCHANGED format
       ELSE /\ format' = from_path(fs.path)[1]
            /\ pc' = "file_open"
            /\ UNCHANGED result
    /\ UNCHANGED <<fs, covered, calls, warnings, opf_path, cover_info, drm_status, scanVars, prev>>

\* let file = std::fs::File::open(path).map_err(..)?
OpenFile ==
    /\ pc = "file_open"
    /\ ran' = Append(ran, "File::open")
    /\ IF fs.status = "missing"
       THEN /\ result' = Err(Error("FileNotFound", "file not found: {0}", fs.path))
            /\ pc' = "done"
       ELSE IF fs.status = "denied"
       THEN /\ result' = Err(Error("Io", "{io error}", <<>>))
            /\ pc' = "done"
       ELSE /\ pc' = "zip_new"
            /\ UNCHANGED result
    /\ UNCHANGED <<fs, covered, calls, openVars, scanVars, prev>>

\* a variant that keeps one warning list for all the calls
OpenZip_shared_warnings ==
    /\ pc = "zip_new"
    /\ ran' = Append(ran, "ZipArchive::new")
    /\ IF fs.status = "notzip"
       THEN /\ result' = Err(Error("InvalidBook", "not a valid ZIP archive: {e}", <<>>))
            /\ pc' = "done"
            /\ UNCHANGED warnings
       ELSE /\ warnings' = IF calls = 1 THEN <<>> ELSE warnings
            /\ pc' = "validate_mimetype"
            /\ UNCHANGED result
    /\ UNCHANGED <<fs, covered, calls, format, opf_path, cover_info, drm_status, scanVars, prev>>

\* let mut zip = ZipArchive::new(file).map_err(..)?; let mut warnings = Vec::new()
OpenZip ==
    /\ pc = "zip_new"
    /\ ran' = Append(ran, "ZipArchive::new")
    /\ IF fs.status = "notzip"
       THEN /\ result' = Err(Error("InvalidBook", "not a valid ZIP archive: {e}", <<>>))
            /\ pc' = "done"
            /\ UNCHANGED warnings
       ELSE /\ warnings' = <<>>
            /\ pc' = "validate_mimetype"
            /\ UNCHANGED result
    /\ UNCHANGED <<fs, covered, calls, format, opf_path, cover_info, drm_status, scanVars, prev>>

\* validate_mimetype(&mut zip, &mut warnings)
OpenValidateMimetype ==
    /\ pc = "validate_mimetype"
    /\ ran' = Append(ran, "validate_mimetype")
    /\ warnings' = validate_mimetype(fs.zip, warnings)
    /\ pc' = "parse_container"
    /\ UNCHANGED <<fs, covered, calls, format, opf_path, cover_info, drm_status, scanVars,
                   result, prev>>

\* let opf_path = parse_container(&mut zip, &mut warnings)?
OpenParseContainer ==
    /\ pc = "parse_container"
    /\ ran' = Append(ran, "parse_container")
    /\ LET r == parse_container(fs.zip, warnings)
       IN  /\ warnings' = r.warnings
           /\ IF r.ok
              THEN /\ opf_path' = r.path
                   /\ pc' = "parse_opf"
                   /\ UNCHANGED result
              ELSE /\ result' = Err(r.err)
                   /\ pc' = "done"
                   /\ UNCHANGED opf_path
    /\ UNCHANGED <<fs, covered, calls, format, cover_info, drm_status, scanVars, prev>>

\* parse_opf, up to the event loop: read the entry, set up the locals
ParseOpfRead ==
    /\ pc = "parse_opf"
    /\ ran' = Append(ran, "parse_opf")
    /\ LET entry == by_name(fs.zip, opf_path)
       IN  IF IsNone(entry)
           THEN /\ warnings' = Append(warnings, Warning(W_OPF_MISSING, opf_path, <<>>))
                /\ result' = Err(Error("InvalidBook", "OPF file not found: {opf_path}", opf_path))
                /\ pc' = "done"
                /\ UNCHANGED scanVars
           ELSE IF ~entry[1].utf8
           THEN /\ result' = Err(Error("Io", "{io error}", <<>>))
                /\ pc' = "done"
                /\ UNCHANGED <<warnings, scanVars>>
           ELSE /\ pos' = 0
                /\ epub_version' = None
                /\ metadata' = DefaultMetadata
                /\ in_metadata' = FALSE
                /\ current_element' = None
                /\ current_text' = <<>>
                /\ cover_meta_id' = None
                /\ manifest_items' = <<>>
                /\ in_manifest' = FALSE
                /\ pc' = "opf_scan"
                /\ UNCHANGED <<warnings, result>>
    /\ UNCHANGED <<fs, covered, calls, format, opf_path, cover_info, drm_status, prev>>

----------------------------------------------------------------------------
(* parse_opf: the event loop. The locals of the loop as a record, and what  *)
(* each kind of event does to them.                                         *)

Locals ==
    [epub_version |-> epub_version, metadata |-> metadata,
     in_metadata |-> in_metadata, current_element |-> current_element,
     current_text |-> current_text, cover_meta_id |-> cover_meta_id,
     manifest_items |-> manifest_items, in_manifest |-> in_manifest]

\* Ok(Event::Start(ref e))
on_start(st, ev) ==
    LET local == local_name(ev.name)
    IN  CASE local = <<"package">> ->
                 [st EXCEPT !.epub_version =
                      IF attr_values(ev, "version") /= <<>>
                      THEN Some(Last(attr_values(ev, "version")))
                      ELSE @]
          [] local = <<"metadata">> -> [st EXCEPT !.in_metadata = TRUE]
          [] local = <<"manifest">> -> [st EXCEPT !.in_manifest = TRUE]
          [] OTHER ->
                 IF st.in_metadata
                 THEN [st EXCEPT !.current_element = Some(local),
                                 !.current_text = <<>>]
                 ELSE st

\* Ok(Event::End(ref e))
on_end(st, ev) ==
    LET local == local_name(ev.name)
    IN  CASE local = <<"metadata">> -> [st EXCEPT !.in_metadata = FALSE]
          [] local = <<"manifest">> -> [st EXCEPT !.in_manifest = FALSE]
          [] OTHER ->
                 IF st.in_metadata
                 THEN LET text == trim(st.current_text)
                      IN  [st EXCEPT
                              !.metadata =
                                  IF IsSome(st.current_element) /\ text /= <<>>
                                  THEN route(@, st.current_element[1], text)
                                  ELSE @,
                              !.current_element = None]
                 ELSE st

\* a variant that records an item wherever it is met
on_empty_item_anywhere(st, ev) ==
    LET local == local_name(ev.name)
    IN  IF local = <<"meta">> /\ st.in_metadata
        THEN LET name == attr_values(ev, "name")
                 content == attr_values(ev, "content")
             IN  IF name /= <<>> /\ content /= <<>>
                 THEN IF Last(name) = <<"cover">>
                      THEN [st EXCEPT !.cover_meta_id = Some(Last(content))]
                      ELSE [st EXCEPT !.metadata = route_meta(@, Last(name), Last(content))]
                 ELSE st
        ELSE IF local = <<"item">>
        THEN LET id == last_attr(ev, "id", <<>>)
                 href == last_attr(ev, "href", <<"">>)
                 properties == IF attr_values(ev, "properties") /= <<>>
                               THEN Some(Last(attr_values(ev, "properties")))
                               ELSE None
             IN  IF id /= <<>>
                 THEN [st EXCEPT !.manifest_items =
                          Append(@, [id |-> id, href |-> href, properties |-> properties])]
                 ELSE st
        ELSE st

\* Ok(Event::Empty(ref e))
on_empty(st, ev) ==
    LET local == local_name(ev.name)
    IN  IF local = <<"meta">> /\ st.in_metadata
        THEN LET name == attr_values(ev, "name")
                 content == attr_values(ev, "content")
             IN  IF name /= <<>> /\ content /= <<>>
                 THEN IF Last(name) = <<"cover">>
                      THEN [st EXCEPT !.cover_meta_id = Some(Last(content))]
                      ELSE [st EXCEPT !.metadata = route_meta(@, Last(name), Last(content))]
                 ELSE st
        ELSE IF local = <<"item">> /\ st.in_manifest
        THEN LET id == last_attr(ev, "id", <<>>)
                 href == last_attr(ev, "href", <<"">>)
                 properties == IF attr_values(ev, "properties") /= <<>>
                               THEN Some(Last(attr_values(ev, "properties")))
                               ELSE None
             IN  IF id /= <<>>
                 THEN [st EXCEPT !.manifest_items =
                          Append(@, [id |-> id, href |-> href, properties |-> properties])]
                 ELSE st
        ELSE st

\* Ok(Event::Text(ref e))
on_text(st, ev) ==
    IF IsSome(st.current_element) /\ ev.ok
    THEN [st EXCEPT !.current_text = @ \o ev.text]
    ELSE st

opf_event(st, ev) ==
    CASE ev.type = "Start" -> on_start(st, ev)
      [] ev.type = "End" -> on_end(st, ev)
      [] ev.type = "Empty" -> on_empty(st, ev)
      [] ev.type = "Text" -> on_text(st, ev)
      [] OTHER -> st

\* the events of the package document open is scanning
opf_doc == by_name(fs.zip, opf_path)[1].events

\* one turn of the loop on an event other than Eof
OpfEvent ==
    /\ pc = "opf_scan"
    /\ pos < Len(opf_doc)
    /\ pos' = pos + 1
    /\ LET ev == opf_doc[pos + 1]
           st == opf_event(Locals, ev)
       IN  IF ev.type = "Err"
           THEN /\ warnings' = Append(warnings, Warning(W_OPF_XML, <<>>, <<>>))
                /\ result' = Err(Error("InvalidBook", "failed to parse OPF: {e}", <<>>))
                /\ pc' = "done"
                /\ UNCHANGED <<epub_version, metadata, in_metadata, current_element,
                               current_text, cover_meta_id, manifest_items, in_manifest>>
           ELSE /\ epub_version' = st.epub_version
                /\ metadata' = st.metadata
                /\ in_metadata' = st.in_metadata
                /\ current_element' = st.current_element
                /\ current_text' = st.current_text
                /\ cover_meta_id' = st.cover_meta_id
                /\ manifest_items' = st.manifest_items
                /\ in_manifest' = st.in_manifest
                /\ UNCHANGED <<warnings, result, pc>>
    /\ UNCHANGED <<fs, covered, calls, ran, format, opf_path, cover_info, drm_status, prev>>

\* Ok(Event::Eof) => break, and parse_opf after the loop: the required
\* metadata, detect_cover, the manifest items' files
ParseOpfFinish ==
    /\ pc = "opf_scan"
    /\ pos = Len(opf_doc)
    /\ ran' = Append(ran, "detect_cover")
    /\ LET w1 == IF IsNone(metadata.title)
                 THEN Append(warnings, Warning(W_NO_TITLE, <<>>, <<>>))
                 ELSE warnings
           w2 == IF IsNone(metadata.language)
                 THEN Append(w1, Warning(W_NO_LANGUAGE, <<>>, <<>>))
                 ELSE w1
           opf_dir == opf_dir_of(opf_path)
           c == detect_cover(fs.zip, opf_dir, cover_meta_id, manifest_items, w2)
       IN  /\ cover_info' = c.cover
           /\ warnings' = manifest_check(fs.zip, opf_dir, manifest_items, c.warnings)
    /\ pc' = "detect_drm"
    /\ UNCHANGED <<fs, covered, calls, format, opf_path, drm_status, scanVars, result, prev>>

\* let drm_status = detect_drm(&mut zip); Ok(EpubBook { .. })
OpenDetectDrm ==
    /\ pc = "detect_drm"
    /\ ran' = Append(ran, "detect_drm")
    /\ drm_status' = detect_drm(fs.zip)
    /\ result' = Ok([path |-> fs.path, format |-> format,
                     epub_version |-> epub_version, metadata |-> metadata,
                     drm_status |-> detect_drm(fs.zip), cover_info |-> cover_info,
                     warnings |-> warnings])
    /\ pc' = "done"
    /\ UNCHANGED <<fs, covered, calls, format, warnings, opf_path, cover_info, scanVars, prev>>

----------------------------------------------------------------------------
(* CoverProvider::cover *)

\* the bytes read_to_end reads from an entry
read_to_end(entry) ==
    [size |-> entry.size, utf8 |-> entry.utf8, text |-> entry.text,
     events |-> entry.events]

CoverOk(bytes) == [ok |-> TRUE, err |-> Error("", "", <<>>), cover |-> bytes]
CoverErr(e) == [ok |-> FALSE, err |-> e, cover |-> None]

\* a variant that reads the entry from the archive open scanned
cover_from_scanned_archive(book, file) ==
    IF IsNone(book.cover_info) THEN CoverOk(None)
    ELSE IF file.status \in {"missing", "denied"}
    THEN CoverErr(Error("Io", "{io error}", <<>>))
    ELSE IF file.status = "notzip"
    THEN CoverErr(Error("InvalidBook", "not a valid ZIP archive: {e}", <<>>))
    ELSE LET href == book.cover_info[1].href
             entry == by_name(fs.zip, href)
         IN  IF IsNone(entry)
             THEN CoverErr(Error("InvalidBook", "cover image not found in ZIP: {href}", href))
             ELSE CoverOk(Some(read_to_end(entry[1])))

\* fn cover(&self): file is what File::open(&self.path) finds at the call
cover(book, file) ==
    IF IsNone(book.cover_info) THEN CoverOk(None)
    ELSE IF file.status \in {"missing", "denied"}
    THEN CoverErr(Error("Io", "{io error}", <<>>))
    ELSE IF file.status = "notzip"
    THEN CoverErr(Error("InvalidBook", "not a valid ZIP archive: {e}", <<>>))
    ELSE LET href == book.cover_info[1].href
             entry == by_name(file.zip, href)
         IN  IF IsNone(entry)
             THEN CoverErr(Error("InvalidBook", "cover image not found in ZIP: {href}", href))
             ELSE CoverOk(Some(read_to_end(entry[1])))

\* the archive without its i-th entry
Without(zip, i) == SubSeq(zip, 1, i - 1) \o SubSeq(zip, i + 1, Len(zip))

\* what may be at the path of f when cover() is called: the file as it
\* was, nothing, something that is no archive, the archive less one entry,
\* the archive with one more byte in an entry
Later(f) ==
    {f, [f EXCEPT !.status = "missing"], [f EXCEPT !.status = "notzip"]}
    \cup {[f EXCEPT !.zip = Without(f.zip, i)] : i \in 1..Len(f.zip)}
    \cup {[f EXCEPT !.zip[i].size = @ + 1] : i \in 1..Len(f.zip)}

\* the caller calls cover() on the book open returned
Cover ==
    /\ pc = "done"
    /\ result[1].ok
    /\ IsNone(covered)
    /\ \E file \in Later(fs) :
          covered' = Some([file |-> file, result |-> cover(result[1].book, file)])
    /\ UNCHANGED <<fs, pc, calls, ran, openVars, scanVars, result, prev>>

\* The caller opens the same path again. The locals of the finished call
\* are dead: the new call assigns each of them before it reads it.
MaxOpens == 2

Reopen ==
    /\ pc = "done"
    /\ calls < MaxOpens
    /\ calls' = calls + 1
    /\ prev' = Append(prev, result[1])
    /\ pc' = "open"
    /\ ran' = <<>>
    /\ result' = None
    /\ covered' = None
    /\ UNCHANGED <<fs, openVars, scanVars>>

Next ==
    \/ OpenClassify
    \/ OpenFile
    \/ OpenZip
    \/ OpenValidateMimetype
    \/ OpenParseContainer
    \/ ParseOpfRead
    \/ OpfEvent
    \/ ParseOpfFinish
    \/ OpenDetectDrm
    \/ Cover
    \/ Reopen

\* the state before the first call of open on fs
Start(f) ==
    /\ fs = f
    /\ pc = "open"
    /\ calls = 1
    /\ ran = <<>>
    /\ result = None
    /\ prev = <<>>
    /\ covered = None
    /\ format = ""
    /\ warnings = <<>>
    /\ opf_path = <<>>
    /\ cover_info = None
    /\ drm_status = DrmNone
    /\ pos = 0
    /\ epub_version = None
    /\ metadata = DefaultMetadata
    /\ in_metadata = FALSE
    /\ current_element = None
    /\ current_text = <<>>
    /\ cover_meta_id = None
    /\ manifest_items = <<>>
    /\ in_manifest = FALSE

----------------------------------------------------------------------------
(* The inputs: builders for ZIP entries and XML events *)

Entry(name, stored, size, utf8, text, events) ==
    [name |-> name, stored |-> stored, size |-> size, utf8 |-> utf8,
     text |-> text, events |-> events]

\* an entry holding an XML document the reader yields these events for
XmlEntry(name, events) == Entry(name, FALSE, 1, TRUE, <<>>, events)
\* an entry whose bytes are not UTF-8 text
BinaryEntry(name, size) == Entry(name, FALSE, size, FALSE, <<>>, <<>>)

Attr(key, value) == [key |-> key, value |-> value]
Event(type, name, attrs, text, ok) ==
    [type |-> type, name |-> name, attrs |-> attrs, text |-> text, ok |-> ok]
StartTag(name, attrs) == Event("Start", name, attrs, <<>>, TRUE)
EndTag(name) == Event("End", name, <<>>, <<>>, TRUE)
EmptyTag(name, attrs) == Event("Empty", name, attrs, <<>>, TRUE)
Text(text) == Event("Text", <<>>, <<>>, text, TRUE)
BadText(text) == Event("Text", <<>>, <<>>, text, FALSE)
CData(text) == Event("CData", <<>>, <<>>, text, TRUE)
Comment == Event("Other", <<>>, <<>>, <<>>, TRUE)
SyntaxError == Event("Err", <<>>, <<>>, <<>>, TRUE)

\* <x>text</x>
Element(name, text) == <<StartTag(name, <<>>), Text(text), EndTag(name)>>

RECURSIVE Flatten(_)
Flatten(ss) == IF ss = <<>> THEN <<>> ELSE Head(ss) \o Flatten(Tail(ss))

----------------------------------------------------------------------------
(* The inputs of Spec: paths, and containers that vary every stage's input *)

p_epub == <<"b", ".", "e", "p", "u", "b">>
p_kepub == <<"b", ".", "k", "e", "p", "u", "b", ".", "e", "p", "u", "b">>
p_mobi == <<"b", ".", "m", "o", "b", "i">>
p_txt == <<"b", ".", "t", "x", "t">>

n_opf == <<"OEBPS", "content.opf">>
n_opf_root == <<"content.opf">>
n_cover == <<"OEBPS", "cover.jpg">>
n_ch1 == <<"OEBPS", "ch1.xhtml">>
h_cover == <<"cover.jpg">>
h_ch1 == <<"ch1.xhtml">>

q_title == <<"dc", "title">>
q_creator == <<"dc", "creator">>
q_language == <<"dc", "language">>
q_identifier == <<"dc", "identifier">>
q_subject == <<"dc", "subject">>

\* the mimetype entry and where it lies in the archive
MimeOk == Entry(n_mimetype, TRUE, 20, TRUE, s_mimetype, <<>>)
MimeNewline == Entry(n_mimetype, TRUE, 21, TRUE, s_mimetype \o <<"\n">>, <<>>)
MimeDeflatedWrong == Entry(n_mimetype, FALSE, 10, TRUE, <<"text/plain">>, <<>>)
MimeBinary == Entry(n_mimetype, TRUE, 20, FALSE, <<>>, <<>>)

SpecMimes ==
    {[place |-> "first", entry |-> e] :
        e \in {MimeOk, MimeNewline, MimeDeflatedWrong, MimeBinary}}
    \cup {[place |-> "last", entry |-> MimeDeflatedWrong],
          [place |-> "absent", entry |-> MimeOk]}

MkZip(m, others) ==
    CASE m.place = "first" -> <<m.entry>> \o others
      [] m.place = "last" -> others \o <<m.entry>>
      [] OTHER -> others

\* META-INF/container.xml
Rootfile(name, path) == EmptyTag(name, <<Attr("full-path", path), Attr("media-type", <<"opf">>)>>)
ContainerDoc(body) == <<StartTag(<<"container">>, <<>>)>> \o body \o <<EndTag(<<"container">>)>>

SpecContainerDocs ==
    {ContainerDoc(<<Rootfile(<<"rootfile">>, n_opf)>>),
     ContainerDoc(<<Rootfile(<<"rootfile">>, n_opf_root)>>),
     ContainerDoc(<<>>),
     ContainerDoc(<<EmptyTag(<<"rootfile">>, <<>>)>>),
     ContainerDoc(<<EmptyTag(<<"rootfile">>, <<>>), Rootfile(<<"rootfile">>, n_opf)>>),
     ContainerDoc(<<Rootfile(<<"x", "rootfile">>, n_opf)>>),
     <<StartTag(<<"container">>, <<>>), SyntaxError>>,
     <<StartTag(<<"container">>, <<>>), Rootfile(<<"rootfile">>, n_opf), SyntaxError>>}

SpecContainers ==
    {<<>>, <<BinaryEntry(n_container, 1)>>}
    \cup {<<XmlEntry(n_container, d)>> : d \in SpecContainerDocs}

\* the package document
Package(version, meta, items) ==
    <<StartTag(<<"package">>, version), StartTag(<<"metadata">>, <<>>)>>
    \o meta
    \o <<EndTag(<<"metadata">>), StartTag(<<"manifest">>, <<>>)>>
    \o items
    \o <<EndTag(<<"manifest">>), EndTag(<<"package">>)>>

Meta(name, content) ==
    EmptyTag(<<"meta">>, <<Attr("name", name), Attr("content", content)>>)
Item(id, href) == EmptyTag(<<"item">>, <<Attr("id", id), Attr("href", href)>>)
ItemP(id, href, props) ==
    EmptyTag(<<"item">>, <<Attr("id", id), Attr("href", href), Attr("properties", props)>>)

TitleAndLanguage == Element(q_title, <<"T">>) \o Element(q_language, <<"e", "n">>)

SpecOpfDocs ==
    {Package(<<Attr("version", <<"3.0">>)>>,
             TitleAndLanguage \o Element(q_creator, <<"A">>)
                 \o <<Meta(<<"cover">>, <<"cvr">>)>>,
             <<Item(<<"cvr">>, h_cover), Item(<<"ch1">>, h_ch1)>>),
     Package(<<>>, <<>>, <<>>),
     Package(<<Attr("version", <<"2.0">>)>>,
             Element(q_title, <<"T">>) \o <<Meta(<<"cover">>, <<"nope">>)>>,
             <<ItemP(<<"img">>, h_cover, <<"cover-image">>)>>),
     <<StartTag(<<"package">>, <<>>), StartTag(<<"metadata">>, <<>>),
       StartTag(q_title, <<>>), Text(<<"T">>), SyntaxError>>}

SpecOpfs ==
    {<<>>, <<BinaryEntry(n_opf, 1)>>,
     <<XmlEntry(n_opf_root, Package(<<>>, TitleAndLanguage, <<Item(<<"cvr">>, h_cover)>>))>>}
    \cup {<<XmlEntry(n_opf, d)>> : d \in SpecOpfDocs}

\* META-INF/encryption.xml
Encryption(text, events) == Entry(n_encryption, FALSE, 1, TRUE, text, events)
Method(alg) == EmptyTag(<<"enc", "EncryptionMethod">>, <<Attr("Algorithm", alg)>>)

SpecEncryptions ==
    {<<>>, <<BinaryEntry(n_encryption, 1)>>,
     <<Encryption(<<"<encryption xmlns=", "urn:adobe:ns:adept", ">">>, <<>>)>>,
     <<Encryption(<<"<encryption>">>, <<Method(A_IDPF)>>)>>,
     <<Encryption(<<"<encryption>">>, <<Method(A_IDPF), Method(<<"aes">>)>>)>>}

SpecFiles ==
    {<<>>, <<BinaryEntry(n_cover, 7), BinaryEntry(n_ch1, 3)>>,
     <<BinaryEntry(h_cover, 5)>>}

SpecZips ==
    {MkZip(m, c \o o \o e \o r) :
        m \in SpecMimes, c \in SpecContainers, o \in SpecOpfs,
        e \in SpecEncryptions, r \in SpecFiles}

File(path, status, zip) == [path |-> path, status |-> status, zip |-> zip]

SpecFs ==
    {File(p, s, <<>>) : p \in {p_epub, p_kepub, p_mobi, p_txt},
                        s \in {"missing", "denied", "notzip"}}
    \cup {File(p, "zip", z) : p \in {p_kepub, p_mobi, p_txt},
                              z \in {MkZip(m, <<>>) : m \in SpecMimes}}
    \cup {File(p_epub, "zip", z) : z \in SpecZips}

Init == \E f \in SpecFs : Start(f)

Spec == Init /\ [][Next]_vars

----------------------------------------------------------------------------
(* What the claims speak of, stated on the input itself *)

Done == pc = "done"
Returned == result[1]

HasEntry(f, name) == \E i \in 1..Len(f.zip) : f.zip[i].name = name
EntryOf(f, name) == f.zip[CHOOSE i \in 1..Len(f.zip) : f.zip[i].name = name]

\* an element <rootfile full-path=".."> of container.xml: one whose
\* namespace-stripped local name is rootfile
RootfileElement(ev) ==
    /\ ev.type \in {"Start", "Empty"}
    /\ Last(ev.name) = "rootfile"
    /\ \E k \in 1..Len(ev.attrs) : ev.attrs[k].key = "full-path"

\* one whose whole name, prefix included, is rootfile
UnprefixedRootfile(ev) == RootfileElement(ev) /\ Len(ev.name) = 1

ContainerReadable(f) == HasEntry(f, n_container) /\ EntryOf(f, n_container).utf8
ContainerEvents(f) == EntryOf(f, n_container).events

\* container.xml is malformed: the reader meets a syntax error in it, which
\* it does when the error comes before the first rootfile element
ContainerMalformed(f, rootfile(_)) ==
    /\ ContainerReadable(f)
    /\ \E i \in 1..Len(ContainerEvents(f)) :
          /\ ContainerEvents(f)[i].type = "Err"
          /\ \A j \in 1..(i - 1) : ~rootfile(ContainerEvents(f)[j])

ContainerNoRootfile(f, rootfile(_)) ==
    /\ ContainerReadable(f)
    /\ \A i \in 1..Len(ContainerEvents(f)) : ~rootfile(ContainerEvents(f)[i])

\* the path the first rootfile element of container.xml declares
DeclaredOpf(f, rootfile(_)) ==
    LET doc == ContainerEvents(f)
        i == CHOOSE k \in 1..Len(doc) :
                 rootfile(doc[k]) /\ \A j \in 1..(k - 1) : ~rootfile(doc[j])
        a == CHOOSE k \in 1..Len(doc[i].attrs) :
                 /\ doc[i].attrs[k].key = "full-path"
                 /\ \A j \in 1..(k - 1) : doc[i].attrs[j].key /= "full-path"
    IN  doc[i].attrs[a].value

OpfMalformed(f, rootfile(_)) ==
    \E i \in 1..Len(EntryOf(f, DeclaredOpf(f, rootfile)).events) :
        EntryOf(f, DeclaredOpf(f, rootfile)).events[i].type = "Err"

\* The fatal condition that comes first in pipeline order, "" when there is
\* none. rootfile(ev) says which elements count as rootfile elements.
FirstFatal(f, rootfile(_)) ==
    IF IsNone(from_path(f.path)) THEN "path extension unrecognized"
    ELSE IF f.status \in {"missing", "denied"} THEN "file cannot be opened"
    ELSE IF f.status = "notzip" THEN "not a valid ZIP"
    ELSE IF ~HasEntry(f, n_container) THEN "container.xml missing"
    ELSE IF ~EntryOf(f, n_container).utf8 THEN "container.xml unreadable"
    ELSE IF ContainerMalformed(f, rootfile) THEN "container.xml malformed"
    ELSE IF ContainerNoRootfile(f, rootfile)
    THEN "container.xml without a rootfile full-path"
    ELSE IF ~HasEntry(f, DeclaredOpf(f, rootfile)) THEN "package document missing"
    ELSE IF ~EntryOf(f, DeclaredOpf(f, rootfile)).utf8 THEN "package document unreadable"
    ELSE IF OpfMalformed(f, rootfile) THEN "package document malformed"
    ELSE ""

\* the error open returns for a fatal condition
ErrorFor(fatal, f) ==
    CASE fatal = "path extension unrecognized" -> <<"UnknownFormat", "unknown format for path: {0}">>
      [] fatal = "file cannot be opened" ->
            IF f.status = "missing" THEN <<"FileNotFound", "file not found: {0}">>
            ELSE <<"Io", "{io error}">>
      [] fatal = "not a valid ZIP" -> <<"InvalidBook", "not a valid ZIP archive: {e}">>
      [] fatal = "container.xml missing" -> <<"InvalidBook", "META-INF/container.xml not found">>
      [] fatal = "container.xml unreadable" -> <<"InvalidBook", "failed to read container.xml: {e}">>
      [] fatal = "container.xml malformed" -> <<"InvalidBook", "failed to parse container.xml: {e}">>
      [] fatal = "container.xml without a rootfile full-path" ->
            <<"InvalidBook", "container.xml: no rootfile element found">>
      [] fatal = "package document missing" -> <<"InvalidBook", "OPF file not found: {opf_path}">>
      [] fatal = "package document unreadable" -> <<"Io", "{io error}">>
      [] fatal = "package document malformed" -> <<"InvalidBook", "failed to parse OPF: {e}">>

\* the stages open has run when it returns for a fatal condition
StagesFor(fatal) ==
    CASE fatal = "path extension unrecognized" -> <<"from_path">>
      [] fatal = "file cannot be opened" -> <<"from_path", "File::open">>
      [] fatal = "not a valid ZIP" -> <<"from_path", "File::open", "ZipArchive::new">>
      [] fatal \in {"container.xml missing", "container.xml unreadable",
                    "container.xml malformed",
                    "container.xml without a rootfile full-path"} ->
            <<"from_path", "File::open", "ZipArchive::new", "validate_mimetype",
              "parse_container">>
      [] OTHER ->
            <<"from_path", "File::open", "ZipArchive::new", "validate_mimetype",
              "parse_container", "parse_opf">>

AllStages ==
    <<"from_path", "File::open", "ZipArchive::new", "validate_mimetype",
      "parse_container", "parse_opf", "detect_cover", "detect_drm">>

\* the snapshot holds every field open computed
FullyPopulated(book) ==
    /\ book.path = fs.path
    /\ book.format = from_path(fs.path)[1]
    /\ book.epub_version = epub_version
    /\ book.metadata = metadata
    /\ book.drm_status = drm_status
    /\ book.cover_info = cover_info
    /\ book.warnings = warnings

\* open returned what the first fatal condition (or none) calls for
ReturnsFor(fatal) ==
    IF fatal = ""
    THEN Returned.ok /\ ran = AllStages /\ FullyPopulated(Returned.book)
    ELSE /\ ~Returned.ok
         /\ <<Returned.err.kind, Returned.err.msg>> = ErrorFor(fatal, fs)
         /\ ran = StagesFor(fatal)

----------------------------------------------------------------------------
(* C1: open returns an error iff a fatal condition holds (path extension   *)
(* unrecognized, file cannot be opened, not a ZIP, container.xml missing,  *)
(* unreadable, malformed or without a rootfile full-path, package document *)
(* missing, unreadable or malformed); the error is the one of the first    *)
(* such condition in pipeline order, no later stage runs after it, and in  *)
(* every other case open returns a fully populated snapshot.                *)
C1_FirstFatalDecides == Done => ReturnsFor(FirstFatal(fs, RootfileElement))

(* C1 with the rootfile element as parse_container matches it, by its whole *)
(* name: what open does.                                                    *)
C1_UnprefixedRootfileDecides == Done => ReturnsFor(FirstFatal(fs, UnprefixedRootfile))

\* open returned for a container.xml whose only rootfile element is prefixed
C1_Witness ==
    /\ Done
    /\ FirstFatal(fs, RootfileElement) = ""
    /\ FirstFatal(fs, UnprefixedRootfile) = "container.xml without a rootfile full-path"

----------------------------------------------------------------------------
(* The non-fatal conditions of C2, stated on the container and the scan *)

\* no fatal condition, as open finds them
NoFatal == FirstFatal(fs, UnprefixedRootfile) = ""

HasWarning(w, kinds) == \E i \in 1..Len(w) : w[i].kind \in kinds
Warned(w, x) == \E i \in 1..Len(w) : w[i] = x

\* The mimetype convention: the first entry is named mimetype, it is
\* stored, and the entry named mimetype holds application/epub+zip. Each
\* violation that is present has its warning among w.
MimetypeViolationsWarned(f, w) ==
    /\ Len(f.zip) = 0 => HasWarning(w, {W_EMPTY})
    /\ (Len(f.zip) > 0 /\ f.zip[1].name /= n_mimetype) => HasWarning(w, {W_FIRST})
    /\ (Len(f.zip) > 0 /\ f.zip[1].name = n_mimetype /\ ~f.zip[1].stored)
          => HasWarning(w, {W_STORED})
    /\ (/\ HasEntry(f, n_mimetype)
        /\ \/ ~EntryOf(f, n_mimetype).utf8
           \/ trim(EntryOf(f, n_mimetype).text) /= s_mimetype)
          => HasWarning(w, {W_CONTENT})

\* the violations validate_mimetype reports: the content only of a first
\* entry named mimetype, and only when it is UTF-8 text
MimetypeProblemsWarned(f, w) ==
    /\ Len(f.zip) = 0 => HasWarning(w, {W_EMPTY})
    /\ (Len(f.zip) > 0 /\ f.zip[1].name /= n_mimetype) => HasWarning(w, {W_FIRST})
    /\ (Len(f.zip) > 0 /\ f.zip[1].name = n_mimetype /\ ~f.zip[1].stored)
          => HasWarning(w, {W_STORED})
    /\ (/\ Len(f.zip) > 0
        /\ f.zip[1].name = n_mimetype
        /\ EntryOf(f, n_mimetype).utf8
        /\ trim(EntryOf(f, n_mimetype).text) /= s_mimetype)
          => HasWarning(w, {W_CONTENT})

InArchive(f, opf, href) == HasEntry(f, Front(opf) \o href) \/ HasEntry(f, href)

Flagged(item) ==
    /\ IsSome(item.properties)
    /\ \E k \in 1..Len(item.properties[1]) :
          /\ item.properties[1][k] = "cover-image"
          /\ k = 1 \/ is_whitespace(item.properties[1][k - 1])
          /\ k = Len(item.properties[1]) \/ is_whitespace(item.properties[1][k + 1])

HasCoverCandidate ==
    \/ IsSome(cover_meta_id)
    \/ \E i \in 1..Len(manifest_items) : Flagged(manifest_items[i])

\* every non-fatal condition but the mimetype ones is among the warnings w
OtherConditionsWarned(w) ==
    /\ IsNone(metadata.title) => HasWarning(w, {W_NO_TITLE})
    /\ IsNone(metadata.language) => HasWarning(w, {W_NO_LANGUAGE})
    /\ \A i \in 1..Len(manifest_items) :
          ~InArchive(fs, opf_path, manifest_items[i].href)
              => Warned(w, Warning(W_MANIFEST, manifest_items[i].id,
                                   manifest_items[i].href))
    /\ (HasCoverCandidate /\ IsNone(cover_info))
          => HasWarning(w, {W_COVER_META, W_COVER_FILE})

RunsToTheEnd ==
    /\ Returned.ok
    /\ ran = AllStages
    /\ Returned.book.drm_status = detect_drm(fs.zip)

(* C2: no non-fatal condition makes open fail. Any mimetype convention     *)
(* violation, a missing title or language, a manifest item whose file is   *)
(* not in the archive and a cover candidate that does not resolve are each *)
(* recorded as a warning, and open runs every later stage (DRM detection   *)
(* included) and returns a snapshot.                                        *)
C2_NonFatalOnlyWarns ==
    (Done /\ NoFatal) =>
        /\ RunsToTheEnd
        /\ MimetypeViolationsWarned(fs, Returned.book.warnings)
        /\ OtherConditionsWarned(Returned.book.warnings)

(* C2 with the mimetype violations validate_mimetype reports: what open    *)
(* does.                                                                    *)
C2_ReportedProblemsOnlyWarn ==
    (Done /\ NoFatal) =>
        /\ RunsToTheEnd
        /\ MimetypeProblemsWarned(fs, Returned.book.warnings)
        /\ OtherConditionsWarned(Returned.book.warnings)

\* open returned a snapshot for a container whose mimetype entry, first
\* and stored, is not UTF-8 text, and recorded no mimetype warning
C2_Witness ==
    /\ Done
    /\ Returned.ok
    /\ fs.zip[1].name = n_mimetype
    /\ fs.zip[1].stored
    /\ ~fs.zip[1].utf8
    /\ ~HasWarning(Returned.book.warnings, MimetypeWarnings)
    /\ HasWarning(Returned.book.warnings, {W_MANIFEST})

----------------------------------------------------------------------------
(* C3: for every container (a ZIP archive at a path open recognises) that  *)
(* has no META-INF/container.xml entry, open fails with InvalidBook, and    *)
(* the warning that container.xml is missing was appended to the warning    *)
(* list before the error is returned.                                       *)
C3_MissingContainerWarned ==
    (/\ Done
     /\ IsSome(from_path(fs.path))
     /\ fs.status = "zip"
     /\ ~HasEntry(fs, n_container)) =>
        /\ ~Returned.ok
        /\ Returned.err.kind = "InvalidBook"
        /\ warnings /= <<>>
        /\ Last(warnings).kind = W_CONTAINER_MISSING

\* open returned for an archive without container.xml
C3_Witness ==
    /\ Done
    /\ fs.status = "zip"
    /\ Len(fs.zip) > 0
    /\ ~HasEntry(fs, n_container)
    /\ ~Returned.ok

----------------------------------------------------------------------------
(* C5: opening the same unmodified container twice yields two snapshots    *)
(* equal field for field: format, version, every metadata field, DRM       *)
(* status, cover info, and the warning list in the same order.              *)
C5_OpenTwiceSameSnapshot ==
    (Done /\ prev /= <<>> /\ Last(prev).ok) =>
        /\ Returned.ok
        /\ Returned.book.format = Last(prev).book.format
        /\ Returned.book.epub_version = Last(prev).book.epub_version
        /\ \A k \in DOMAIN DefaultMetadata :
              Returned.book.metadata[k] = Last(prev).book.metadata[k]
        /\ Returned.book.drm_status = Last(prev).book.drm_status
        /\ Returned.book.cover_info = Last(prev).book.cover_info
        /\ Returned.book.warnings = Last(prev).book.warnings

\* the second open returned a snapshot with warnings, as the first had
C5_Witness ==
    /\ Done
    /\ calls = 2
    /\ Returned.ok
    /\ Last(prev).ok
    /\ Len(Returned.book.warnings) >= 2
    /\ IsSome(Returned.book.cover_info)

----------------------------------------------------------------------------
(* SpecFormat: open on paths built character by character *)

Chars(str) ==
    CASE str = "book" -> <<"b", "o", "o", "k">>
      [] str = "d/" -> <<"d", "/">>
      [] str = "d.epub/" -> <<"d", ".", "e", "p", "u", "b", "/">>
      [] str = "../" -> <<".", ".", "/">>
      [] str = ".epub" -> <<".", "e", "p", "u", "b">>
      [] str = ".EPUB" -> <<".", "E", "P", "U", "B">>
      [] str = ".kepub" -> <<".", "k", "e", "p", "u", "b">>
      [] str = ".KePub" -> <<".", "K", "e", "P", "u", "b">>
      [] str = "kepub" -> <<"k", "e", "p", "u", "b">>
      [] str = ".mobi" -> <<".", "m", "o", "b", "i">>
      [] str = ".Azw3" -> <<".", "A", "z", "w", "3">>
      [] str = ".txt" -> <<".", "t", "x", "t">>
      [] str = "." -> <<".">>
      [] str = "/" -> <<"/">>
      [] OTHER -> <<>>

FormatDirs == {"", "d/", "d.epub/", "../"}
FormatStems == {"", "book", "kepub"}
FormatSuffixes ==
    {".epub", ".EPUB", ".kepub", ".KePub", ".mobi", ".Azw3", ".txt", ".", "/"}

\* the longest run of suffixes a path is built from
MaxSuffixes == 2

RECURSIVE SuffixRuns(_)
SuffixRuns(n) ==
    IF n = 0 THEN {<<>>}
    ELSE SuffixRuns(n - 1)
         \cup {r \o Chars(x) : r \in SuffixRuns(n - 1), x \in FormatSuffixes}

FormatPaths ==
    {Chars(d) \o Chars(st) \o r :
        d \in FormatDirs, st \in FormatStems, r \in SuffixRuns(MaxSuffixes)}

PlainZip ==
    MkZip([place |-> "first", entry |-> MimeOk],
          <<XmlEntry(n_container, ContainerDoc(<<Rootfile(<<"rootfile">>, n_opf)>>)),
            XmlEntry(n_opf, Package(<<>>, TitleAndLanguage, <<Item(<<"cvr">>, h_cover)>>))>>)

InitFormat ==
    \E p \in FormatPaths :
        \/ Start(File(p, "missing", <<>>))
        \/ Start(File(p, "zip", PlainZip))

SpecFormat == InitFormat /\ [][Next]_vars

\* what from_path returned in this call of open, once it has been called
Classified ==
    IF Done /\ ~Returned.ok /\ Returned.err.kind = "UnknownFormat"
    THEN None
    ELSE Some(format)

EndsWithIgnoringCase(path, suffix) ==
    /\ Len(path) >= Len(suffix)
    /\ \A i \in 1..Len(suffix) :
          LowerChar(path[Len(path) - Len(suffix) + i]) = LowerChar(suffix[i])

\* the final extension of the path is ext, whatever its case: its file
\* name is a non-empty stem, a '.', and ext without a '.'
FinalExtensionIs(path, ext) ==
    /\ IsSome(file_name(path))
    /\ LET f == file_name(path)[1]
       IN  /\ Len(f) > Len(ext) + 1
           /\ f[Len(f) - Len(ext)] = "."
           /\ EndsWithIgnoringCase(f, ext)
           /\ \A i \in 1..Len(ext) : ext[i] /= "."

ExpectedFormat(path) ==
    IF EndsWithIgnoringCase(path, s_kepub_epub) THEN Some("Kepub")
    ELSE IF FinalExtensionIs(path, s_epub) THEN Some("Epub")
    ELSE IF FinalExtensionIs(path, s_mobi) THEN Some("Mobi")
    ELSE IF FinalExtensionIs(path, s_azw3) THEN Some("Azw3")
    ELSE None

book_kepub_epub == Chars("book") \o Chars(".kepub") \o Chars(".epub")
book_EPUB == Chars("book") \o Chars(".EPUB")
book_txt == Chars("book") \o Chars(".txt")

(* C4: from_path gives every path one answer, compares without regard to   *)
(* case and checks the compound suffix first: a path ending in .kepub.epub  *)
(* is Kepub, otherwise a final extension of epub, mobi or azw3 is Epub,     *)
(* Mobi or Azw3, and every other path is absent; book.kepub.epub is Kepub,  *)
(* book.EPUB is Epub and book.txt is absent.                                *)
C4_FromPathClassifies ==
    (Len(ran) >= 1) =>
        /\ Classified \in {None} \cup {Some(f) : f \in Format}
        /\ Classified = ExpectedFormat(fs.path)
        /\ fs.path = book_kepub_epub => Classified = Some("Kepub")
        /\ fs.path = book_EPUB => Classified = Some("Epub")
        /\ fs.path = book_txt => Classified = None

\* from_path has classified a path that ends in .kepub.epub in mixed case
\* and whose final extension is epub
C4_Witness ==
    /\ Len(ran) >= 1
    /\ EndsWithIgnoringCase(fs.path, s_kepub_epub)
    /\ ~ends_with(fs.path, s_kepub_epub)
    /\ FinalExtensionIs(fs.path, s_epub)
    /\ Classified = Some("Kepub")

----------------------------------------------------------------------------
(* SpecScan: open on package documents whose metadata is a run of creator  *)
(* and subject elements                                                     *)

cA == Element(q_creator, <<"A">>)
cB == Element(q_creator, <<" ", "B", " ">>)
cC == Element(q_creator, <<"C">>)
cBlank == Element(q_creator, <<" ", "\n">>)
\* <dc:creator>D<span>x</span></dc:creator>
cChild ==
    <<StartTag(q_creator, <<>>), Text(<<"D">>)>> \o Element(<<"span">>, <<"x">>)
    \o <<EndTag(q_creator)>>
\* <dc:creator><![CDATA[E]]></dc:creator>
cCData == <<StartTag(q_creator, <<>>), CData(<<"E">>), EndTag(q_creator)>>
\* <dc:creator>F&bogus;</dc:creator>: text the reader cannot unescape
cBadText == <<StartTag(q_creator, <<>>), BadText(<<"F&bogus;">>), EndTag(q_creator)>>
sS == Element(q_subject, <<"S">>)

ScanFragments == {cA, cB, cC, cBlank, cChild, cCData, cBadText, sS}

\* the longest run of elements in a document's metadata
MaxFrags == 3

RECURSIVE Runs(_, _)
Runs(frags, n) ==
    IF n = 0 THEN {<<>>}
    ELSE Runs(frags, n - 1) \cup {r \o x : r \in Runs(frags, n - 1), x \in frags}

ZipWithOpf(doc, files) ==
    MkZip([place |-> "first", entry |-> MimeOk],
          <<XmlEntry(n_container, ContainerDoc(<<Rootfile(<<"rootfile">>, n_opf)>>)),
            XmlEntry(n_opf, doc)>> \o files)

ScanDocs == {Package(<<>>, TitleAndLanguage \o r, <<>>) : r \in Runs(ScanFragments, MaxFrags)}

InitScan == \E d \in ScanDocs : Start(File(p_epub, "zip", ZipWithOpf(d, <<>>)))

SpecScan == InitScan /\ [][Next]_vars

\* the index of the end tag that closes the element open at k, at the given
\* depth of elements opened since
RECURSIVE ClosingTag(_, _, _)
ClosingTag(doc, k, depth) ==
    IF k > Len(doc) THEN k
    ELSE IF doc[k].type = "Start" THEN ClosingTag(doc, k + 1, depth + 1)
    ELSE IF doc[k].type = "End"
    THEN IF depth = 0 THEN k ELSE ClosingTag(doc, k + 1, depth - 1)
    ELSE ClosingTag(doc, k + 1, depth)

ElementEnd(doc, i) == ClosingTag(doc, i + 1, 0)

Within(doc, i, k) == i < k /\ k < ElementEnd(doc, i)

InsideMetadata(doc, i) ==
    \E a \in 1..(i - 1) :
        /\ doc[a].type = "Start"
        /\ Last(doc[a].name) = "metadata"
        /\ Within(doc, a, i)

\* the character data directly inside the element that starts at i, from k on
RECURSIVE CharacterData(_, _, _)
CharacterData(doc, i, k) ==
    IF k >= ElementEnd(doc, i) THEN <<>>
    ELSE IF /\ doc[k].type \in {"Text", "CData"}
            /\ \A a \in (i + 1)..(k - 1) : ~(doc[a].type = "Start" /\ Within(doc, a, k))
    THEN doc[k].text \o CharacterData(doc, i, k + 1)
    ELSE CharacterData(doc, i, k + 1)

\* the non-empty trimmed texts of the elements named local inside metadata,
\* in document order, from event i on
RECURSIVE ElementTexts(_, _, _)
ElementTexts(doc, local, i) ==
    IF i > Len(doc) THEN <<>>
    ELSE IF /\ doc[i].type = "Start"
            /\ Last(doc[i].name) = local
            /\ InsideMetadata(doc, i)
            /\ trim(CharacterData(doc, i, i + 1)) /= <<>>
    THEN <<trim(CharacterData(doc, i, i + 1))>> \o ElementTexts(doc, local, i + 1)
    ELSE ElementTexts(doc, local, i + 1)

\* the content of every element named local is text the reader unescapes:
\* no child element, no CDATA section, no text it cannot unescape
PlainTextOnly(doc, local) ==
    \A i \in 1..Len(doc) :
        (doc[i].type = "Start" /\ Last(doc[i].name) = local) =>
            \A k \in (i + 1)..(ElementEnd(doc, i) - 1) :
                doc[k].type = "Text" /\ doc[k].ok

Scanned == Done /\ Returned.ok

ThreeCreators == Package(<<>>, TitleAndLanguage \o cA \o cB \o cC, <<>>)

(* C6: the authors list of the snapshot is the sequence of the non-empty   *)
(* trimmed texts of the creator elements inside metadata, in document      *)
(* order, duplicates preserved (creators A, B, C give [A, B, C]); the same *)
(* for the subject elements and the subjects list.                          *)
C6_AuthorsInDocumentOrder ==
    Scanned =>
        /\ Returned.book.metadata.authors = ElementTexts(opf_doc, "creator", 1)
        /\ Returned.book.metadata.subjects = ElementTexts(opf_doc, "subject", 1)
        /\ opf_doc = ThreeCreators
              => Returned.book.metadata.authors = <<<<"A">>, <<"B">>, <<"C">>>>

(* C6 for documents whose creator and subject elements hold only text the  *)
(* reader unescapes: what the scan does.                                    *)
C6_PlainTextInDocumentOrder ==
    (/\ Scanned
     /\ PlainTextOnly(opf_doc, "creator")
     /\ PlainTextOnly(opf_doc, "subject")) =>
        /\ Returned.book.metadata.authors = ElementTexts(opf_doc, "creator", 1)
        /\ Returned.book.metadata.subjects = ElementTexts(opf_doc, "subject", 1)
        /\ opf_doc = ThreeCreators
              => Returned.book.metadata.authors = <<<<"A">>, <<"B">>, <<"C">>>>

\* open returned a snapshot without the author of a creator element whose
\* text is a CDATA section, and with the authors before and after it
C6_Witness ==
    /\ Scanned
    /\ ElementTexts(opf_doc, "creator", 1) = <<<<"A">>, <<"E">>, <<"A">>>>
    /\ Returned.book.metadata.authors = <<<<"A">>, <<"A">>>>

----------------------------------------------------------------------------
(* SpecIsbn: open on package documents whose metadata is a run of          *)
(* identifier elements, their texts character by character                  *)

t_978 == <<"9", "7", "8", "-", "0", "-", "1", "3", "-", "4", "6", "8", "5", "9", "9", "-", "1">>
t_12345 == <<"1", "2", "3", "4", "5">>
t_10X == <<"0", "-", "3", "0", "6", "-", "4", "0", "6", "1", "5", "-", "X">>
t_10x == <<"0", "-", "3", "0", "6", "-", "4", "0", "6", "1", "5", "-", "x">>
t_urn == <<"u", "r", "n", ":", "i", "s", "b", "n", ":",
           "9", "7", "8", "0", "3", "0", "6", "4", "0", "6", "1", "5", "7">>
t_14 == <<"9", "7", "8", "0", "3", "0", "6", "4", "0", "6", "1", "5", "7", "0">>
t_spaced == <<" ", "1", "2", "3", "4", "5", " ", "6", "7", "8", "9", "0", "\n">>
t_11 == <<"X", "X", "1", "2", "3", "4", "5", "6", "7", "8", "9">>

IdentifierTexts == {t_978, t_12345, t_10X, t_10x, t_urn, t_14, t_spaced, t_11}

IsbnFragments == {Element(q_identifier, t) : t \in IdentifierTexts}

\* the longest run of identifier elements in a document's metadata
MaxIds == 3

IsbnDocs ==
    {Package(<<>>, r \o TitleAndLanguage, <<>>) : r \in Runs(IsbnFragments, MaxIds)}

InitIsbn == \E d \in IsbnDocs : Start(File(p_epub, "zip", ZipWithOpf(d, <<>>)))

SpecIsbn == InitIsbn /\ [][Next]_vars

\* the scan is at the end tag of an identifier element whose text is t
ClosesIdentifier(t) ==
    /\ pc = "opf_scan"
    /\ pos < Len(opf_doc)
    /\ opf_doc[pos + 1].type = "End"
    /\ in_metadata
    /\ current_element = Some(<<"identifier">>)
    /\ t = trim(current_text)

\* what is left of t without the characters that are neither an ASCII
\* digit nor an uppercase X has length 10 or 13
Passes(t) ==
    Cardinality({i \in 1..Len(t) :
                    t[i] \in {"0", "1", "2", "3", "4", "5", "6", "7", "8", "9", "X"}})
        \in {10, 13}

(* C7: during the package scan the ISBN changes at most once: it is set    *)
(* from the first identifier element, in document order, whose text passes *)
(* the ISBN heuristic, and no later identifier element, passing or not,    *)
(* changes or clears it.                                                    *)
C7_IsbnSetOnce ==
    [][pc = "opf_scan" =>
          /\ IsSome(metadata.isbn) => metadata'.isbn = metadata.isbn
          /\ (IsNone(metadata.isbn) /\ IsSome(metadata'.isbn)) =>
                /\ ClosesIdentifier(metadata'.isbn[1])
                /\ Passes(metadata'.isbn[1])
          /\ (/\ IsNone(metadata.isbn)
              /\ ClosesIdentifier(trim(current_text))
              /\ Passes(trim(current_text))) =>
                metadata'.isbn = Some(trim(current_text))]_vars

\* the scan is at the end tag of a passing identifier element, the ISBN
\* being set from an earlier one with another text
C7_Witness ==
    /\ IsSome(metadata.isbn)
    /\ \E t \in IdentifierTexts :
          ClosesIdentifier(t) /\ Passes(t) /\ metadata.isbn /= Some(t)

(* C8: the ISBN heuristic accepts an identifier text exactly when, after   *)
(* removing every character that is not an ASCII digit or an uppercase X,  *)
(* the remaining length is 10 or 13: 978-0-13-468599-1 is accepted and     *)
(* stored as ISBN, and 12345 is rejected leaving the ISBN absent.           *)
C8_IsbnHeuristic ==
    /\ ClosesIdentifier(trim(current_text)) =>
          (looks_like_isbn(trim(current_text)) <=> Passes(trim(current_text)))
    /\ Scanned =>
          LET texts == ElementTexts(opf_doc, "identifier", 1)
              isbn == Returned.book.metadata.isbn
          IN  /\ IsSome(isbn) <=> \E k \in 1..Len(texts) : Passes(texts[k])
              /\ IsSome(isbn) => Passes(isbn[1])
              /\ texts = <<t_978>> => isbn = Some(t_978)
              /\ texts = <<t_12345>> => isbn = None
              /\ texts = <<t_12345, t_978>> => isbn = Some(t_978)

\* open returned a snapshot whose ISBN is 978-0-13-468599-1, taken from
\* the identifier element after a rejected 12345
C8_Witness ==
    /\ Scanned
    /\ ElementTexts(opf_doc, "identifier", 1) = <<t_12345, t_978>>
    /\ Returned.book.metadata.isbn = Some(t_978)

----------------------------------------------------------------------------
(* SpecCover: open on package documents with a cover meta, manifest items  *)
(* in every order, and archives with or without the items' files           *)

n_img == <<"OEBPS", "img.png">>
h_img == <<"img.png">>

i_cvr == Item(<<"cvr">>, h_cover)
i_img == ItemP(<<"img">>, h_img, <<"cover-image">>)
i_alt == ItemP(<<"alt">>, h_ch1, <<"nav", " ", "cover-image">>)
i_ch1 == ItemP(<<"ch1">>, h_ch1, <<"cover-imagex">>)

CoverItems == {<<i_cvr>>, <<i_img>>, <<i_alt>>, <<i_ch1>>}
CoverMetas == {<<>>, <<Meta(<<"cover">>, <<"cvr">>)>>, <<Meta(<<"cover">>, <<"nope">>)>>,
               <<Meta(<<"cover">>, <<"img">>)>>}

\* the most items in a manifest
MaxItems == 3

\* the manifests: up to MaxItems different items, in every order
Manifests ==
    {r \in Runs(CoverItems, MaxItems) :
        \A i, j \in 1..Len(r) : i /= j => r[i] /= r[j]}

CoverDocs ==
    {Package(<<>>, TitleAndLanguage \o m, r) : m \in CoverMetas, r \in Manifests}

\* the image and chapter entries an archive may hold
CoverFiles ==
    {Flatten(<<IF a THEN <<BinaryEntry(n_cover, 7)>> ELSE <<>>,
               IF b THEN <<BinaryEntry(h_cover, 5)>> ELSE <<>>,
               IF c THEN <<BinaryEntry(n_img, 9)>> ELSE <<>>,
               IF d THEN <<BinaryEntry(n_ch1, 3)>> ELSE <<>>>>) :
        a \in BOOLEAN, b \in BOOLEAN, c \in BOOLEAN, d \in BOOLEAN}

InitCover ==
    \E d \in CoverDocs, files \in CoverFiles :
        Start(File(p_epub, "zip", ZipWithOpf(d, files)))

SpecCover == InitCover /\ [][Next]_vars

\* the value of attribute key of the element ev ("" when it has none)
AttrOf(ev, key) ==
    IF \E k \in 1..Len(ev.attrs) : ev.attrs[k].key = key
    THEN ev.attrs[CHOOSE k \in 1..Len(ev.attrs) : ev.attrs[k].key = key].value
    ELSE <<"">>

\* the ids the document's cover metas give
CoverMetaIds(doc) ==
    {AttrOf(doc[i], "content") :
        i \in {k \in 1..Len(doc) : /\ doc[k].type = "Empty"
                                   /\ Last(doc[k].name) = "meta"
                                   /\ AttrOf(doc[k], "name") = <<"cover">>}}

\* the positions of the document's manifest items
ItemsOf(doc) ==
    {k \in 1..Len(doc) : doc[k].type = "Empty" /\ Last(doc[k].name) = "item"}

HasToken(value, token) ==
    \E k \in 1..Len(value) :
        /\ value[k] = token
        /\ k = 1 \/ is_whitespace(value[k - 1])
        /\ k = Len(value) \/ is_whitespace(value[k + 1])

FlaggedItem(ev) == HasToken(AttrOf(ev, "properties"), "cover-image")

Resolves(ev) == InArchive(fs, opf_path, AttrOf(ev, "href"))

\* where the item's file is: at opf_dir + href when that entry exists,
\* otherwise at the bare href
CoverOf(ev) ==
    LET full == Front(opf_path) \o AttrOf(ev, "href")
        at == IF HasEntry(fs, full) THEN full ELSE AttrOf(ev, "href")
    IN  Some([href |-> at, size |-> EntryOf(fs, at).size])

CoverFileWarnings(w) == {i \in 1..Len(w) : w[i].kind = W_COVER_FILE}

(* C9: when the package document has a cover meta whose id names a         *)
(* manifest item that resolves to an existing entry, and a different       *)
(* manifest item flagged cover-image, the resolved cover path is that of   *)
(* the cover meta's item, whatever the order of the two in the manifest.    *)
C9_CoverMetaWins ==
    Scanned =>
        \A a, b \in ItemsOf(opf_doc) :
            (/\ a /= b
             /\ AttrOf(opf_doc[a], "id") \in CoverMetaIds(opf_doc)
             /\ Resolves(opf_doc[a])
             /\ FlaggedItem(opf_doc[b])) =>
                Returned.book.cover_info = CoverOf(opf_doc[a])

\* open returned the cover meta's item as the cover though a flagged item
\* whose file exists comes before it in the manifest
C9_Witness ==
    /\ Scanned
    /\ \E a, b \in ItemsOf(opf_doc) :
          /\ b < a
          /\ AttrOf(opf_doc[a], "id") \in CoverMetaIds(opf_doc)
          /\ Resolves(opf_doc[a])
          /\ FlaggedItem(opf_doc[b])
          /\ Resolves(opf_doc[b])
          /\ CoverOf(opf_doc[b]) /= CoverOf(opf_doc[a])
          /\ Returned.book.cover_info = CoverOf(opf_doc[a])

(* C10: when the cover meta id matches a manifest item whose file exists   *)
(* neither at opf_dir + href nor at the bare href, the resolver returns no *)
(* cover with exactly one 'cover image file not found' warning and does    *)
(* not try the properties-based strategy, even if another manifest item    *)
(* flagged cover-image resolves to an existing entry.                       *)
C10_MissingCoverFileIsFinal ==
    Scanned =>
        \A a \in ItemsOf(opf_doc) :
            (/\ AttrOf(opf_doc[a], "id") \in CoverMetaIds(opf_doc)
             /\ ~Resolves(opf_doc[a])) =>
                /\ Returned.book.cover_info = None
                /\ Cardinality(CoverFileWarnings(Returned.book.warnings)) = 1
                /\ Warned(Returned.book.warnings,
                          Warning(W_COVER_FILE, AttrOf(opf_doc[a], "href"), <<>>))
                /\ ~HasWarning(Returned.book.warnings, {W_COVER_META})

\* open returned no cover for a cover meta's item without its file though
\* a flagged item with its file is in the manifest
C10_Witness ==
    /\ Scanned
    /\ Returned.book.cover_info = None
    /\ \E a, b \in ItemsOf(opf_doc) :
          /\ AttrOf(opf_doc[a], "id") \in CoverMetaIds(opf_doc)
          /\ ~Resolves(opf_doc[a])
          /\ FlaggedItem(opf_doc[b])
          /\ Resolves(opf_doc[b])

----------------------------------------------------------------------------
(* SpecDrm: open on archives whose META-INF/encryption.xml holds the Adobe *)
(* or Kobo strings or not, and a run of elements                            *)

a_aes == <<"http://www.w3.org/2001/04/xmlenc#aes128-cbc">>
a_custom == <<"https://example.com/custom-enc">>

\* <EncryptionMethod Algorithm=".."> as a start tag without a prefix
MethodStart(alg) == StartTag(<<"EncryptionMethod">>, <<Attr("Algorithm", alg)>>)

DrmFragments ==
    {<<Method(A_IDPF)>>, <<Method(A_ADOBE_RC)>>, <<Method(a_aes)>>,
     <<MethodStart(a_custom)>>,
     <<EmptyTag(<<"enc", "CipherReference">>, <<Attr("URI", <<"OEBPS/ch1.xhtml">>)>>)>>,
     <<EmptyTag(<<"enc", "EncryptionMethod">>, <<>>)>>,
     <<SyntaxError>>}

\* the raw text of encryption.xml, as far as detect_drm searches it
DrmTexts ==
    {<<"<encryption>">>,
     <<"<encryption xmlns=", "urn:adobe:ns:adept", ">">>,
     <<"<encryption><!-- ", "http://ns.adobe.com/adept", " -->">>,
     <<"<encryption><x>", "urn:kobo:", "</x>">>,
     <<"<encryption><x>", "urn:kobo:", "</x>", "urn:adobe:ns:adept", ">">>}

\* the longest run of elements in encryption.xml
MaxMethods == 3

DrmEncryptions ==
    {<<>>, <<BinaryEntry(n_encryption, 1)>>}
    \cup {<<Encryption(t, r)>> : t \in DrmTexts, r \in Runs(DrmFragments, MaxMethods)}

PlainOpf == Package(<<>>, TitleAndLanguage, <<>>)

InitDrm == \E e \in DrmEncryptions : Start(File(p_epub, "zip", ZipWithOpf(PlainOpf, e)))

SpecDrm == InitDrm /\ [][Next]_vars

EncryptionReadable == HasEntry(fs, n_encryption) /\ EntryOf(fs, n_encryption).utf8
EncryptionText == EntryOf(fs, n_encryption).text
EncryptionEvents == EntryOf(fs, n_encryption).events

TextHolds(str) == \E k \in 1..Len(EncryptionText) : EncryptionText[k] = str
HoldsAdobe == TextHolds("urn:adobe:ns:adept") \/ TextHolds("http://ns.adobe.com/adept")
HoldsKobo == TextHolds("urn:kobo:")

\* the XML of encryption.xml parses: the reader meets no syntax error
EncryptionParses == \A k \in 1..Len(EncryptionEvents) : EncryptionEvents[k].type /= "Err"

\* the Algorithm values of the EncryptionMethod elements among the first n
\* events, in document order
RECURSIVE AlgorithmValues(_, _)
AlgorithmValues(doc, n) ==
    IF n = 0 THEN <<>>
    ELSE LET ev == doc[n]
         IN  AlgorithmValues(doc, n - 1)
             \o IF /\ ev.type \in {"Start", "Empty"}
                   /\ Last(ev.name) = "EncryptionMethod"
                   /\ \E k \in 1..Len(ev.attrs) : ev.attrs[k].key = "Algorithm"
                THEN <<AttrOf(ev, "Algorithm")>>
                ELSE <<>>

FontObfuscation == {A_IDPF, A_ADOBE_RC}

(* C11: for a readable encryption.xml the DRM status is                    *)
(* Protected(AdobeAdept) whenever the raw text holds urn:adobe:ns:adept or *)
(* http://ns.adobe.com/adept anywhere, whatever the algorithm list, a Kobo *)
(* string also present, or the XML being well formed or not; otherwise it  *)
(* is Protected(KoboProtected) whenever the text holds urn:kobo:.           *)
C11_AdobeThenKobo ==
    (Scanned /\ EncryptionReadable) =>
        /\ HoldsAdobe => Returned.book.drm_status = Protected("AdobeAdept", <<>>)
        /\ (~HoldsAdobe /\ HoldsKobo)
              => Returned.book.drm_status = Protected("KoboProtected", <<>>)

\* open returned AdobeAdept for a text with the Kobo string before the
\* Adobe one, an algorithm outside the font set and a syntax error
C11_Witness ==
    /\ Scanned
    /\ EncryptionReadable
    /\ HoldsAdobe
    /\ HoldsKobo
    /\ ~EncryptionParses
    /\ AlgorithmValues(EncryptionEvents, Len(EncryptionEvents)) = <<a_aes>>
    /\ Returned.book.drm_status = Protected("AdobeAdept", <<>>)

(* C12: when no Adobe or Kobo string matches and the XML parses, the DRM   *)
(* status is decided by the Algorithm values of the EncryptionMethod       *)
(* elements in document order: Unknown if there is none, None if every     *)
(* value is in the font-obfuscation set, otherwise Protected(Other(u)), u  *)
(* the first value in document order outside that set.                      *)
C12_AlgorithmsDecide ==
    (/\ Scanned
     /\ EncryptionReadable
     /\ ~HoldsAdobe
     /\ ~HoldsKobo
     /\ EncryptionParses) =>
        LET algs == AlgorithmValues(EncryptionEvents, Len(EncryptionEvents))
            outside == {k \in 1..Len(algs) : algs[k] \notin FontObfuscation}
        IN  Returned.book.drm_status =
                IF algs = <<>> THEN DrmUnknown
                ELSE IF outside = {} THEN DrmNone
                ELSE Protected("Other",
                               algs[CHOOSE k \in outside : \A j \in outside : k <= j])

\* open returned Other(u) for a u read after a font-obfuscation value and
\* before another value outside the set
C12_Witness ==
    /\ Scanned
    /\ EncryptionReadable
    /\ ~HoldsAdobe
    /\ ~HoldsKobo
    /\ AlgorithmValues(EncryptionEvents, Len(EncryptionEvents)) = <<A_IDPF, a_custom, a_aes>>
    /\ Returned.book.drm_status = Protected("Other", a_custom)

----------------------------------------------------------------------------
(* validate_mimetype and its four problems, under Spec *)

Ran(stage) == \E i \in 1..Len(ran) : ran[i] = stage

\* how many warnings of this kind w holds
Count(w, kind) == Cardinality({i \in 1..Len(w) : w[i].kind = kind})

NoEntries(f) == Len(f.zip) = 0
FirstNotMimetype(f) == Len(f.zip) > 0 /\ f.zip[1].name /= n_mimetype
FirstNotStored(f) == Len(f.zip) > 0 /\ ~f.zip[1].stored
\* the entry named mimetype is UTF-8 text that, trimmed, is something else
ContentNotExact(f) ==
    /\ HasEntry(f, n_mimetype)
    /\ EntryOf(f, n_mimetype).utf8
    /\ trim(EntryOf(f, n_mimetype).text) /= s_mimetype

(* C13: validate_mimetype appends exactly one warning for each problem     *)
(* that is present, independently of the others, and none for a problem    *)
(* that is absent: no entries; first entry not named mimetype; first entry *)
(* not stored; trimmed UTF-8 content of the entry named mimetype not       *)
(* exactly application/epub+zip.                                            *)
C13_OneWarningPerProblem ==
    Ran("validate_mimetype") =>
        /\ Count(warnings, W_EMPTY) = IF NoEntries(fs) THEN 1 ELSE 0
        /\ Count(warnings, W_FIRST) = IF FirstNotMimetype(fs) THEN 1 ELSE 0
        /\ Count(warnings, W_STORED) = IF FirstNotStored(fs) THEN 1 ELSE 0
        /\ Count(warnings, W_CONTENT) = IF ContentNotExact(fs) THEN 1 ELSE 0

\* validate_mimetype ran on an archive whose first entry is deflated and
\* not named mimetype and whose last entry, named mimetype, holds
\* text/plain: three problems, and one warning
C13_Witness ==
    /\ Ran("validate_mimetype")
    /\ FirstNotMimetype(fs)
    /\ FirstNotStored(fs)
    /\ ContentNotExact(fs)
    /\ [i \in 1..Len(warnings) |-> warnings[i].kind] \in {<<W_FIRST>>}
    /\ pc = "parse_container"

\* what validate_mimetype does: the first problem met ends the validation
\* when it is one of the first two, and the other two are looked at only
\* on a first entry named mimetype
C13_WarningsOfFirstEntry ==
    Ran("validate_mimetype") =>
        /\ Count(warnings, W_EMPTY) = IF NoEntries(fs) THEN 1 ELSE 0
        /\ Count(warnings, W_FIRST) = IF FirstNotMimetype(fs) THEN 1 ELSE 0
        /\ Count(warnings, W_STORED) =
              IF FirstNotStored(fs) /\ ~FirstNotMimetype(fs) THEN 1 ELSE 0
        /\ Count(warnings, W_CONTENT) =
              IF ContentNotExact(fs) /\ ~FirstNotMimetype(fs) THEN 1 ELSE 0

----------------------------------------------------------------------------
(* The format of the books open returns, under SpecFormat *)

(* C14: every book returned by a successful open has format Epub or Kepub: *)
(* a path classified as Mobi or Azw3 is never parsed into a snapshot.       *)
C14_OnlyEpubOrKepubParsed ==
    (Done /\ Returned.ok) => Returned.book.format \in {"Epub", "Kepub"}

\* open returned a book for a path whose final extension is mobi, all the
\* stages run, and the book's format is Mobi
C14_Witness ==
    /\ Done
    /\ Returned.ok
    /\ FinalExtensionIs(fs.path, s_mobi)
    /\ ran = AllStages
    /\ Returned.book.format = "Mobi"

\* what open does: the format of a returned book is the one from_path
\* gave its path, whichever of the four it is
C14_FormatIsThatOfThePath ==
    (Done /\ Returned.ok) =>
        /\ ExpectedFormat(fs.path) = Some(Returned.book.format)
        /\ Returned.book.format \in Format

----------------------------------------------------------------------------
(* The cover info of the books open returns, under SpecCover *)

OpfEvents == EntryOf(fs, opf_path).events

(* C15: in every snapshot returned by open, cover info is present only if  *)
(* its recorded path (opf_dir + href when that entry exists, otherwise the *)
(* bare href) named an entry that existed in the container during the scan, *)
(* and its size is that entry's size.                                       *)
C15_CoverInfoNamesAnEntry ==
    (Scanned /\ IsSome(Returned.book.cover_info)) =>
        LET info == Returned.book.cover_info[1]
        IN  /\ HasEntry(fs, info.href)
            /\ info.size = EntryOf(fs, info.href).size
            /\ \E k \in ItemsOf(OpfEvents) :
                  LET href == AttrOf(OpfEvents[k], "href")
                      full == Front(opf_path) \o href
                  IN  info.href = IF HasEntry(fs, full) THEN full ELSE href

\* open returned cover info recorded under the bare href, the archive
\* holding no entry at opf_dir + href
C15_Witness ==
    /\ Scanned
    /\ Returned.book.cover_info = Some([href |-> h_cover, size |-> 5])
    /\ ~HasEntry(fs, n_cover)
    /\ HasEntry(fs, h_cover)

----------------------------------------------------------------------------
(* cover() on the books open returns, under SpecCover *)

(* C16: cover() on a snapshot that has cover info re-opens the container   *)
(* file independently and fails with InvalidBook when the recorded cover   *)
(* path is no longer an entry of the archive; on a snapshot without cover  *)
(* info it returns no cover and no error.                                   *)
C16_CoverReopensTheFile ==
    IsSome(covered) =>
        LET book == Returned.book
            file == covered[1].file
            out == covered[1].result
        IN  /\ IsNone(book.cover_info) => (out.ok /\ IsNone(out.cover))
            /\ (IsSome(book.cover_info) /\ file.status = "zip") =>
                  IF HasEntry(file, book.cover_info[1].href)
                  THEN /\ out.ok
                       /\ out.cover[1].size = EntryOf(file, book.cover_info[1].href).size
                  ELSE ~out.ok /\ out.err.kind = "InvalidBook"

\* cover() failed with InvalidBook on a book whose cover entry open had
\* found and the archive no longer holds
C16_Witness ==
    /\ IsSome(covered)
    /\ IsSome(Returned.book.cover_info)
    /\ HasEntry(fs, Returned.book.cover_info[1].href)
    /\ covered[1].file.status = "zip"
    /\ ~HasEntry(covered[1].file, Returned.book.cover_info[1].href)
    /\ ~covered[1].result.ok
    /\ covered[1].result.err.kind = "InvalidBook"

----------------------------------------------------------------------------
(* SpecWarn: open on archives that give every kind of warning a snapshot   *)
(* can hold: mimetype entries right and wrong, package documents with or   *)
(* without title and language, a cover meta, items with or without files   *)

WarnMimes ==
    {[place |-> "first", entry |-> MimeOk],
     [place |-> "first", entry |-> MimeDeflatedWrong],
     [place |-> "last", entry |-> MimeOk]}

WarnMetadata ==
    {<<>>, Element(q_title, <<"T">>), Element(q_language, <<"e", "n">>), TitleAndLanguage}

WarnMetas == {<<>>, <<Meta(<<"cover">>, <<"cvr">>)>>, <<Meta(<<"cover">>, <<"nope">>)>>}

WarnItems == {<<i_cvr>>, <<i_img>>, <<i_ch1>>}

\* the most items in a manifest of SpecWarn
MaxWarnItems == 2

WarnManifests ==
    {r \in Runs(WarnItems, MaxWarnItems) : \A i, j \in 1..Len(r) : i /= j => r[i] /= r[j]}

WarnFiles ==
    {Flatten(<<IF a THEN <<BinaryEntry(n_cover, 7)>> ELSE <<>>,
               IF b THEN <<BinaryEntry(n_ch1, 3)>> ELSE <<>>>>) :
        a \in BOOLEAN, b \in BOOLEAN}

InitWarn ==
    \E m \in WarnMimes, md \in WarnMetadata, cm \in WarnMetas, r \in WarnManifests,
       files \in WarnFiles :
        Start(File(p_epub, "zip",
                   MkZip(m, <<XmlEntry(n_container,
                                       ContainerDoc(<<Rootfile(<<"rootfile">>, n_opf)>>)),
                              XmlEntry(n_opf, Package(<<>>, md \o cm, r))>> \o files)))

SpecWarn == InitWarn /\ [][Next]_vars

IsPrefix(a, b) == Len(a) <= Len(b) /\ SubSeq(b, 1, Len(a)) = a

\* where a kind of warning comes in encounter order
Rank(kind) ==
    CASE kind \in MimetypeWarnings -> 1
      [] kind = W_NO_TITLE -> 2
      [] kind = W_NO_LANGUAGE -> 3
      [] kind \in {W_COVER_META, W_COVER_FILE} -> 4
      [] kind = W_MANIFEST -> 5
      [] OTHER -> 0

\* the warnings for the items among the first n events of the package
\* document whose file is not in the archive, in document order
RECURSIVE UnresolvedItems(_, _)
UnresolvedItems(doc, n) ==
    IF n = 0 THEN <<>>
    ELSE UnresolvedItems(doc, n - 1)
         \o IF n \in ItemsOf(doc) /\ ~Resolves(doc[n])
            THEN <<Warning(W_MANIFEST, AttrOf(doc[n], "id"), AttrOf(doc[n], "href"))>>
            ELSE <<>>

StagesInOrder == IsPrefix(ran, AllStages)

WarningsInEncounterOrder ==
    Scanned =>
        LET w == Returned.book.warnings
        IN  /\ ran = AllStages
            /\ \A i \in 1..Len(w) : Rank(w[i].kind) > 0
            /\ \A i, j \in 1..Len(w) : i < j => Rank(w[i].kind) <= Rank(w[j].kind)
            /\ SelectSeq(w, LAMBDA x : x.kind = W_MANIFEST)
                   = UnresolvedItems(OpfEvents, Len(OpfEvents))

\* a step of a stage leaves the warnings it found at the head of the list
EarlierWarningsKept == pc /= "zip_new" => IsPrefix(warnings, warnings')

(* C17: open runs its stages strictly in the order mimetype validation,    *)
(* container location, package parsing (cover resolution inside it), DRM   *)
(* detection, and the snapshot's warning list is in encounter order:       *)
(* mimetype warnings, then missing-title, then missing-language, then      *)
(* cover-resolution warnings, then unresolved-manifest-item warnings in    *)
(* manifest order; no stage removes or reorders earlier warnings.           *)
C17_StagesAndWarningsInOrder ==
    /\ [](StagesInOrder /\ WarningsInEncounterOrder)
    /\ [][EarlierWarningsKept]_vars

\* open returned a snapshot with a warning of each of the five groups, the
\* last group holding two warnings
C17_Witness ==
    /\ Scanned
    /\ \A r \in 1..5 :
          \E i \in 1..Len(Returned.book.warnings) : Rank(Returned.book.warnings[i].kind) = r
    /\ Len(UnresolvedItems(OpfEvents, Len(OpfEvents))) = 2

----------------------------------------------------------------------------
(* parse_container and the rootfile element, under Spec *)

\* parse_container has returned a path
Located == Ran("parse_container") /\ ~(pc = "done" /\ Last(ran) = "parse_container")

\* container.xml is read up to a rootfile element: there is one, and no
\* syntax error before the first
ReachesRootfile(rootfile(_)) ==
    /\ ContainerReadable(fs)
    /\ ~ContainerMalformed(fs, rootfile)
    /\ ~ContainerNoRootfile(fs, rootfile)

(* C18: parse_container returns the full-path attribute of the first start *)
(* or self-closing element whose namespace-stripped local name is rootfile *)
(* (a prefixed element such as x:rootfile counts); that first element      *)
(* decides the result and no element after it is scanned.                   *)
C18_FirstRootfileByLocalName ==
    (Ran("parse_container") /\ ReachesRootfile(RootfileElement)) =>
        /\ Located
        /\ opf_path = DeclaredOpf(fs, RootfileElement)

\* parse_container returned "no rootfile element found" for a container.xml
\* whose rootfile element is prefixed
C18_Witness ==
    /\ Ran("parse_container")
    /\ ReachesRootfile(RootfileElement)
    /\ ~ReachesRootfile(UnprefixedRootfile)
    /\ Done
    /\ ~Returned.ok
    /\ Returned.err.msg = "container.xml: no rootfile element found"

\* what parse_container does: the first element whose whole name is
\* rootfile decides, a syntax error after it included
C18_FirstRootfileByWholeName ==
    /\ (Ran("parse_container") /\ ReachesRootfile(UnprefixedRootfile)) =>
          /\ Located
          /\ opf_path = DeclaredOpf(fs, UnprefixedRootfile)
    /\ (Ran("parse_container") /\ ~ReachesRootfile(UnprefixedRootfile)) => ~Located

----------------------------------------------------------------------------
(* The errors of parse_container and parse_opf and their warnings, under   *)
(* Spec                                                                     *)

\* open returned an error of the container-location or package-parsing stage
StageFailed == Done /\ ~Returned.ok /\ Ran("parse_container")

\* the warning that describes an error message, where the code has one
WarningFor(msg) ==
    CASE msg = "META-INF/container.xml not found" -> {W_CONTAINER_MISSING}
      [] msg = "failed to read container.xml: {e}" -> {W_CONTAINER_READ}
      [] msg = "failed to parse container.xml: {e}" -> {W_CONTAINER_XML}
      [] msg = "OPF file not found: {opf_path}" -> {W_OPF_MISSING}
      [] msg = "failed to parse OPF: {e}" -> {W_OPF_XML}
      [] OTHER -> {}

\* the errors these stages return with no warning of their own
Unwarned(err) ==
    \/ err.msg = "container.xml: no rootfile element found"
    \/ err.kind = "Io"

(* C19: every error returned by the container-location or package-parsing *)
(* stage is preceded by appending a warning that describes that failure to *)
(* the warning list: container.xml missing, unreadable or malformed, no    *)
(* rootfile element found, package document missing, unreadable or         *)
(* malformed.                                                                *)
C19_ErrorsAreWarnedFirst ==
    StageFailed =>
        /\ warnings /= <<>>
        /\ Last(warnings).kind \notin MimetypeWarnings
        /\ WarningFor(Returned.err.msg) /= {}
              => Last(warnings).kind \in WarningFor(Returned.err.msg)

\* open returned "no rootfile element found" and the warning list holds
\* nothing but what validate_mimetype put there
C19_Witness ==
    /\ StageFailed
    /\ Returned.err.msg = "container.xml: no rootfile element found"
    /\ \A i \in 1..Len(warnings) : warnings[i].kind \in MimetypeWarnings

\* what the two stages do: five of their errors come after a warning of
\* their own, and the other two after none
C19_FiveErrorsAreWarnedFirst ==
    StageFailed =>
        IF Unwarned(Returned.err)
        THEN \A i \in 1..Len(warnings) : warnings[i].kind \in MimetypeWarnings
        ELSE /\ warnings /= <<>>
             /\ WarningFor(Returned.err.msg) /= {}
             /\ Last(warnings).kind \in WarningFor(Returned.err.msg)
             /\ \A i \in 1..(Len(warnings) - 1) : warnings[i].kind \in MimetypeWarnings

----------------------------------------------------------------------------
(* SpecNest: open on package documents whose metadata elements hold other  *)
(* elements, every end tag closing the start tag it matches                 *)

\* <dc:title>A</dc:title>
nTitle == Element(q_title, <<"A">>)
\* <dc:title>A<package version="9">B</package>C</dc:title>
nPackage ==
    <<StartTag(q_title, <<>>), Text(<<"A">>),
      StartTag(<<"package">>, <<Attr("version", <<"9">>)>>), Text(<<"B">>),
      EndTag(<<"package">>), Text(<<"C">>), EndTag(q_title)>>
\* <dc:creator><opf:package> D </opf:package></dc:creator>
nPrefixed ==
    <<StartTag(q_creator, <<>>), StartTag(<<"opf", "package">>, <<>>),
      Text(<<" ", "D", " ">>), EndTag(<<"opf", "package">>), EndTag(q_creator)>>
\* <dc:subject>S<manifest></manifest></dc:subject>
nManifest ==
    <<StartTag(q_subject, <<>>), Text(<<"S">>), StartTag(<<"manifest">>, <<>>),
      EndTag(<<"manifest">>), EndTag(q_subject)>>
\* <dc:subject><package> </package></dc:subject>
nBlank ==
    <<StartTag(q_subject, <<>>), StartTag(<<"package">>, <<>>), Text(<<" ">>),
      EndTag(<<"package">>), EndTag(q_subject)>>
\* <x:title>E</x:title>
nOther == Element(<<"x", "title">>, <<"E">>)

NestFragments == {nTitle, nPackage, nPrefixed, nManifest, nBlank, nOther, cChild}

\* the longest run of elements in the metadata of SpecNest
MaxNest == 2

NestDocs == {Package(<<>>, r \o Element(q_language, <<"e", "n">>), <<>>) :
                r \in Runs(NestFragments, MaxNest)}

InitNest == \E d \in NestDocs : Start(File(p_epub, "zip", ZipWithOpf(d, <<>>)))

SpecNest == InitNest /\ [][Next]_vars

\* the scan is about to read an end tag inside metadata
AtEndTag ==
    /\ pc = "opf_scan"
    /\ pos < Len(OpfEvents)
    /\ OpfEvents[pos + 1].type = "End"
    /\ in_metadata

\* that end tag's local name is the remembered current element
EndTagMatches == current_element = Some(<<Last(OpfEvents[pos + 1].name)>>)

(* C20: during the package scan, inside metadata, the accumulated text     *)
(* buffer is trimmed and routed to a metadata field only at an end tag     *)
(* whose local name equals the remembered current element; an end tag with *)
(* any other local name neither routes the buffer nor changes any metadata *)
(* field.                                                                    *)
C20_RoutedAtMatchingEndTag ==
    [][AtEndTag =>
          IF EndTagMatches /\ trim(current_text) /= <<>>
          THEN metadata' = route(metadata, current_element[1], trim(current_text))
          ELSE metadata' = metadata]_vars

\* the scan has read </package> inside <dc:title>, and the title is the
\* text read until then
C20_Witness ==
    /\ pc = "opf_scan"
    /\ pos > 0
    /\ in_metadata
    /\ OpfEvents[pos] = EndTag(<<"package">>)
    /\ IsNone(current_element)
    /\ metadata.title = Some(<<"A", "B">>)

\* what the scan does: inside metadata every end tag but </metadata> and
\* </manifest> routes the buffer by the remembered element, whatever the
\* name of the end tag
C20_RoutedAtAnyEndTag ==
    [][AtEndTag =>
          IF /\ Last(OpfEvents[pos + 1].name) \notin {"metadata", "manifest"}
             /\ IsSome(current_element)
             /\ trim(current_text) /= <<>>
          THEN metadata' = route(metadata, current_element[1], trim(current_text))
          ELSE metadata' = metadata]_vars

----------------------------------------------------------------------------
(* SpecText: open on package documents with text before, inside and after  *)
(* the metadata element, and a metadata element inside a title              *)

\* <dc:title>A<metadata>B</metadata>C</dc:title>
xNested ==
    <<StartTag(q_title, <<>>), Text(<<"A">>), StartTag(<<"metadata">>, <<>>),
      Text(<<"B">>), EndTag(<<"metadata">>), Text(<<"C">>), EndTag(q_title)>>
\* text directly inside metadata
xLoose == <<Text(<<"X">>)>>
\* <dc:subject>S</dc:subject>
xSubject == Element(q_subject, <<"S">>)

TextFragments == {xNested, xLoose, xSubject, nTitle, cChild}

\* what precedes the metadata element
TextBefore == {<<>>, <<Text(<<"P">>)>>}
\* what follows it: nothing, text, or <metadata><package>D</package></metadata>
TextAfter ==
    {<<>>, <<Text(<<"Z">>)>>,
     <<Text(<<"Z">>), StartTag(<<"metadata">>, <<>>), StartTag(<<"package">>, <<>>),
       Text(<<"D">>), EndTag(<<"package">>), EndTag(<<"metadata">>)>>}

\* the longest run of fragments in the metadata of SpecText
MaxText == 2

TextDocs ==
    {<<StartTag(<<"package">>, <<>>)>> \o b \o <<StartTag(<<"metadata">>, <<>>)>> \o r
        \o <<EndTag(<<"metadata">>)>> \o a \o <<EndTag(<<"package">>)>> :
        b \in TextBefore, r \in Runs(TextFragments, MaxText), a \in TextAfter}

InitText == \E d \in TextDocs : Start(File(p_epub, "zip", ZipWithOpf(d, <<>>)))

SpecText == InitText /\ [][Next]_vars

\* the scan is about to read a text event
AtText ==
    /\ pc = "opf_scan"
    /\ pos < Len(OpfEvents)
    /\ OpfEvents[pos + 1].type = "Text"

\* no element is being tracked inside the metadata region
Untracked == IsNone(current_element) \/ ~in_metadata

\* the texts of SpecText that the scan always meets untracked: before the
\* metadata element, after it, and after the metadata element in a title
UntrackedTexts == {"P", "Z", "C"}

Holds(text, pieces) == \E i \in 1..Len(text) : text[i] \in pieces
OptionHolds(o, pieces) == IsSome(o) /\ Holds(o[1], pieces)
ListHolds(l, pieces) == \E i \in 1..Len(l) : Holds(l[i], pieces)

\* some field of md holds one of the pieces
FieldHolds(md, pieces) ==
    \/ OptionHolds(md.title, pieces)
    \/ ListHolds(md.authors, pieces)
    \/ OptionHolds(md.description, pieces)
    \/ OptionHolds(md.publisher, pieces)
    \/ OptionHolds(md.language, pieces)
    \/ OptionHolds(md.isbn, pieces)
    \/ OptionHolds(md.publication_date, pieces)
    \/ ListHolds(md.subjects, pieces)
    \/ OptionHolds(md.series, pieces)

(* C21: a text event affects the scan only while an element is being       *)
(* tracked inside the metadata region: text met when no current element is *)
(* set, or while the scan is outside metadata, never reaches the text      *)
(* buffer and never ends up in any Metadata field.                          *)
C21_UntrackedTextIgnored ==
    /\ [][(AtText /\ Untracked) => (current_text' = current_text /\ metadata' = metadata)]_vars
    /\ [](Ran("parse_opf") => ~FieldHolds(metadata, UntrackedTexts))

\* open returned a title that holds the text met after </metadata>, the
\* scan being outside metadata
C21_Witness ==
    /\ Scanned
    /\ Returned.book.metadata.title = Some(<<"A", "B", "C", "Z", "D">>)

\* what the scan does: a text event reaches the buffer exactly when a
\* current element is set and the text unescapes, inside metadata or not
C21_TextOfCurrentElementKept ==
    [][AtText =>
          /\ metadata' = metadata
          /\ current_text' =
                IF IsSome(current_element) /\ OpfEvents[pos + 1].ok
                THEN current_text \o OpfEvents[pos + 1].text
                ELSE current_text]_vars

----------------------------------------------------------------------------
(* SpecSeries: open on package documents whose metadata is a run of meta   *)
(* elements for calibre:series and calibre:series_index                     *)

q_series == <<"calibre:series">>
q_series_index == <<"calibre:series_index">>

SeriesFragments ==
    {<<Meta(q_series, <<"S">>)>>,
     <<Meta(q_series_index, <<"1">>)>>,
     <<Meta(q_series_index, <<"2.5">>)>>,
     <<Meta(q_series_index, <<"abc">>)>>,
     <<Meta(q_series_index, <<" ", "2">>)>>,
     <<Meta(q_series_index, <<"">>)>>}

\* the longest run of meta elements in a document's metadata
MaxMetas == 3

SeriesDocs ==
    {Package(<<>>, TitleAndLanguage \o r, <<>>) : r \in Runs(SeriesFragments, MaxMetas)}

InitSeries == \E d \in SeriesDocs : Start(File(p_epub, "zip", ZipWithOpf(d, <<>>)))

SpecSeries == InitSeries /\ [][Next]_vars

\* the contents of SpecSeries that are numbers
Numbers == {<<"1">>, <<"2.5">>}

SeriesIndexMeta(ev) ==
    /\ ev.type = "Empty"
    /\ Last(ev.name) = "meta"
    /\ AttrOf(ev, "name") = q_series_index

\* the scan is about to read a series_index meta inside metadata
AtSeriesIndex ==
    /\ pc = "opf_scan"
    /\ pos < Len(OpfEvents)
    /\ in_metadata
    /\ SeriesIndexMeta(OpfEvents[pos + 1])

(* C22: a calibre:series_index meta whose content does not parse as a      *)
(* number is ignored: it leaves series_index (and every other field)       *)
(* unchanged, so a valid index captured from an earlier meta element is    *)
(* kept.                                                                     *)
C22_UnparsableIndexIgnored ==
    [][(AtSeriesIndex /\ AttrOf(OpfEvents[pos + 1], "content") \notin Numbers)
          => metadata' = metadata]_vars

\* the scan has read a series_index meta that is no number, after one that
\* is, and the series index is absent
C22_Witness ==
    /\ pc = "opf_scan"
    /\ pos > 1
    /\ SeriesIndexMeta(OpfEvents[pos])
    /\ AttrOf(OpfEvents[pos], "content") = <<"abc">>
    /\ SeriesIndexMeta(OpfEvents[pos - 1])
    /\ AttrOf(OpfEvents[pos - 1], "content") = <<"2.5">>
    /\ IsNone(metadata.series_index)

\* what the scan does: every series_index meta assigns the field, a number
\* when the content is one and nothing when it is not
C22_IndexAssignedEveryTime ==
    [][AtSeriesIndex =>
          /\ IsSome(metadata'.series_index)
                <=> AttrOf(OpfEvents[pos + 1], "content") \in Numbers
          /\ [metadata' EXCEPT !.series_index = None]
                = [metadata EXCEPT !.series_index = None]]_vars

----------------------------------------------------------------------------
(* SpecItems: open on package documents with item elements inside and      *)
(* outside the manifest element, with and without an id                     *)

\* <item href="ch1.xhtml"/>
mNoId == EmptyTag(<<"item">>, <<Attr("href", h_ch1)>>)
\* <item id="" href="ch1.xhtml"/>
mEmptyId == EmptyTag(<<"item">>, <<Attr("id", <<>>), Attr("href", h_ch1)>>)
\* <item id="nohref"/>
mNoHref == EmptyTag(<<"item">>, <<Attr("id", <<"nohref">>)>>)
\* <opf:item id="pre" href="img.png" properties="cover-image"/>
mPrefixed ==
    EmptyTag(<<"opf", "item">>,
             <<Attr("id", <<"pre">>), Attr("href", h_img), Attr("properties", <<"cover-image">>)>>)
\* <item id="open" href="ch1.xhtml"></item>
mOpen == <<StartTag(<<"item">>, <<Attr("id", <<"open">>), Attr("href", h_ch1)>>),
           EndTag(<<"item">>)>>
\* <manifest></manifest> inside the manifest element
mNested == <<StartTag(<<"manifest">>, <<>>), EndTag(<<"manifest">>)>>

ItemFragments ==
    {<<i_cvr>>, <<mNoId>>, <<mEmptyId>>, <<mNoHref>>, <<mPrefixed>>, mOpen, mNested}

\* items outside the manifest element: in metadata and after </manifest>
ItemsOutside == {<<>>, <<i_cvr>>, <<mPrefixed>>}

\* the longest run of fragments in a manifest of SpecItems
MaxManifest == 3

ItemDocs ==
    {<<StartTag(<<"package">>, <<>>), StartTag(<<"metadata">>, <<>>)>> \o o
        \o <<EndTag(<<"metadata">>), StartTag(<<"manifest">>, <<>>)>> \o r
        \o <<EndTag(<<"manifest">>)>> \o o \o <<EndTag(<<"package">>)>> :
        o \in ItemsOutside, r \in Runs(ItemFragments, MaxManifest)}

InitItems == \E d \in ItemDocs : Start(File(p_epub, "zip", ZipWithOpf(d, <<>>)))

SpecItems == InitItems /\ [][Next]_vars

HasAttr(ev, key) == \E k \in 1..Len(ev.attrs) : ev.attrs[k].key = key

\* event i of doc is in the manifest region: a manifest start tag precedes
\* it with no manifest end tag in between
InManifestRegion(doc, i) ==
    \E a \in 1..(i - 1) :
        /\ doc[a].type = "Start"
        /\ Last(doc[a].name) = "manifest"
        /\ \A b \in (a + 1)..(i - 1) :
              ~(doc[b].type = "End" /\ Last(doc[b].name) = "manifest")

SelfClosingItem(ev) == ev.type = "Empty" /\ Last(ev.name) = "item"
IdentifiedItem(ev) == SelfClosingItem(ev) /\ HasAttr(ev, "id") /\ AttrOf(ev, "id") /= <<>>

\* the entry (id, href, optional properties) of an item element
EntryFor(ev) ==
    [id |-> IF HasAttr(ev, "id") THEN AttrOf(ev, "id") ELSE <<>>,
     href |-> AttrOf(ev, "href"),
     properties |-> IF HasAttr(ev, "properties") THEN Some(AttrOf(ev, "properties"))
                    ELSE None]

\* the entries of the self-closing item elements, among the first n events,
\* that are in the manifest region, in document order: all of them, or
\* those with a non-empty id
RECURSIVE IndexOf(_, _, _)
IndexOf(doc, n, identified) ==
    IF n = 0 THEN <<>>
    ELSE IndexOf(doc, n - 1, identified)
         \o IF /\ IF identified THEN IdentifiedItem(doc[n]) ELSE SelfClosingItem(doc[n])
               /\ InManifestRegion(doc, n)
            THEN <<EntryFor(doc[n])>>
            ELSE <<>>

\* the scan of the package document has ended
AfterScan == Ran("detect_cover")

(* C23, as the scan builds the index: after the scan the manifest index    *)
(* contains exactly one entry (id, href, optional properties) for every    *)
(* self-closing item element with a non-empty id that occurred inside the  *)
(* manifest region, in document order, and no entry for an item element    *)
(* outside the manifest region or without an id.                            *)
C23_IndexOfIdentifiedItems ==
    AfterScan => manifest_items = IndexOf(OpfEvents, Len(OpfEvents), TRUE)

(* C23 as stated: one entry for every self-closing item element inside the *)
(* manifest region.                                                          *)
C23_IndexOfEveryItem ==
    AfterScan => manifest_items = IndexOf(OpfEvents, Len(OpfEvents), FALSE)

\* the scan has ended on a manifest with an item without an id between two
\* items with one, an item being outside the manifest too
C23_Witness ==
    /\ AfterScan
    /\ Len(manifest_items) = 2
    /\ Len(IndexOf(OpfEvents, Len(OpfEvents), FALSE)) = 3
    /\ \E k \in 1..Len(OpfEvents) :
          SelfClosingItem(OpfEvents[k]) /\ ~InManifestRegion(OpfEvents, k)
    /\ manifest_items[1].id = <<"pre">>
    /\ manifest_items[2].id = <<"cvr">>

----------------------------------------------------------------------------
(* The warnings for the manifest index entries, under SpecCover *)

Unresolved(item) ==
    /\ ~HasEntry(fs, Front(opf_path) \o item.href)
    /\ ~HasEntry(fs, item.href)

\* the positions of the unresolved-manifest-item warnings in w
ManifestWarnings(w) == {i \in 1..Len(w) : w[i].kind = W_MANIFEST}

(* C24: after cover resolution, parse_opf appends exactly one warning,     *)
(* naming the item id and href, for each manifest index entry for which    *)
(* neither opf_dir + href nor the bare href names a container entry, in    *)
(* manifest order, and none for an entry that resolves either way; the     *)
(* number of such warnings equals the number of unresolved entries and     *)
(* open still succeeds.                                                      *)
C24_OneWarningPerUnresolvedEntry ==
    AfterScan =>
        LET missing == {k \in 1..Len(manifest_items) : Unresolved(manifest_items[k])}
            n == Cardinality(missing)
            at(i) == Len(warnings) - n + i
        IN  /\ Cardinality(ManifestWarnings(warnings)) = n
            /\ ManifestWarnings(warnings) = {at(i) : i \in 1..n}
            /\ \A i \in 1..n :
                  \E k \in missing :
                     /\ Cardinality({j \in missing : j <= k}) = i
                     /\ warnings[at(i)] = Warning(W_MANIFEST, manifest_items[k].id,
                                                  manifest_items[k].href)
            /\ \A i \in 1..(Len(warnings) - n) :
                  warnings[i].kind \in MimetypeWarnings
                      \cup {W_NO_TITLE, W_NO_LANGUAGE, W_COVER_META, W_COVER_FILE}
            /\ Done => (Returned.ok /\ Returned.book.warnings = warnings)

\* open returned a snapshot for a manifest of three entries, the first
\* found under its bare href only and the other two not found
C24_Witness ==
    /\ Scanned
    /\ Len(manifest_items) = 3
    /\ ~Unresolved(manifest_items[1])
    /\ ~HasEntry(fs, Front(opf_path) \o manifest_items[1].href)
    /\ Unresolved(manifest_items[2])
    /\ Unresolved(manifest_items[3])
    /\ Cardinality(ManifestWarnings(Returned.book.warnings)) = 2

----------------------------------------------------------------------------
(* The two strategies of detect_cover, under SpecCover *)

\* the cover meta's id names no item of the document
MetaNamesNoItem(doc, id) == \A a \in ItemsOf(doc) : AttrOf(doc[a], "id") /= id

\* item b is the first one flagged cover-image, in document order
FirstFlagged(doc, b) ==
    /\ b \in ItemsOf(doc)
    /\ FlaggedItem(doc[b])
    /\ \A a \in ItemsOf(doc) : a < b => ~FlaggedItem(doc[a])

(* C25: when a cover meta id is present but matches no manifest item, the  *)
(* resolver appends exactly one warning and then applies the               *)
(* properties-based strategy, so a manifest item flagged cover-image that  *)
(* resolves is still returned as the cover.                                 *)
C25_UnmatchedMetaFallsThrough ==
    Scanned =>
        \A id \in CoverMetaIds(OpfEvents) :
            MetaNamesNoItem(OpfEvents, id) =>
                /\ Count(Returned.book.warnings, W_COVER_META) = 1
                /\ Warned(Returned.book.warnings, Warning(W_COVER_META, id, <<>>))
                /\ \A b \in ItemsOf(OpfEvents) :
                      (FirstFlagged(OpfEvents, b) /\ Resolves(OpfEvents[b]))
                          => Returned.book.cover_info = CoverOf(OpfEvents[b])

\* open returned a flagged item as the cover, with the warning that the
\* cover meta names no item
C25_Witness ==
    /\ Scanned
    /\ \E id \in CoverMetaIds(OpfEvents) : MetaNamesNoItem(OpfEvents, id)
    /\ \E b \in ItemsOf(OpfEvents) :
          /\ FirstFlagged(OpfEvents, b)
          /\ Resolves(OpfEvents[b])
          /\ Returned.book.cover_info = CoverOf(OpfEvents[b])
    /\ Count(Returned.book.warnings, W_COVER_META) = 1

\* the properties-based strategy is the one that decides: there is no
\* cover meta, or its id names no item
ByProperties == \A id \in CoverMetaIds(OpfEvents) : MetaNamesNoItem(OpfEvents, id)

(* C26: the properties-based strategy considers only the first manifest    *)
(* item in document order whose properties contain the whitespace-delimited *)
(* token cover-image (a value holding cover-image only as part of a longer *)
(* token does not qualify): its resolution result is returned immediately, *)
(* and if its file is missing the result is no cover plus one warning,     *)
(* later flagged items never being tried; when no item is flagged and no   *)
(* cover meta exists the result is no cover and no warning.                 *)
C26_FirstFlaggedItemDecides ==
    (Scanned /\ ByProperties) =>
        /\ \A b \in ItemsOf(OpfEvents) :
              FirstFlagged(OpfEvents, b) =>
                  IF Resolves(OpfEvents[b])
                  THEN /\ Returned.book.cover_info = CoverOf(OpfEvents[b])
                       /\ Count(Returned.book.warnings, W_COVER_FILE) = 0
                  ELSE /\ Returned.book.cover_info = None
                       /\ Count(Returned.book.warnings, W_COVER_FILE) = 1
                       /\ Warned(Returned.book.warnings,
                                 Warning(W_COVER_FILE, AttrOf(OpfEvents[b], "href"), <<>>))
        /\ (\A b \in ItemsOf(OpfEvents) : ~FlaggedItem(OpfEvents[b])) =>
              /\ Returned.book.cover_info = None
              /\ Count(Returned.book.warnings, W_COVER_FILE) = 0
              /\ CoverMetaIds(OpfEvents) = {}
                    => Count(Returned.book.warnings, W_COVER_META) = 0

\* open returned no cover and one warning: the first flagged item has no
\* file, a later flagged item has one, and an item before them holds
\* cover-image inside a longer token
C26_Witness ==
    /\ Scanned
    /\ ByProperties
    /\ Returned.book.cover_info = None
    /\ Count(Returned.book.warnings, W_COVER_FILE) = 1
    /\ \E a, b, c \in ItemsOf(OpfEvents) :
          /\ a < b
          /\ b < c
          /\ AttrOf(OpfEvents[a], "properties") = <<"cover-imagex">>
          /\ FirstFlagged(OpfEvents, b)
          /\ ~Resolves(OpfEvents[b])
          /\ FlaggedItem(OpfEvents[c])
          /\ Resolves(OpfEvents[c])

----------------------------------------------------------------------------
(* detect_drm on an absent, unreadable or malformed encryption.xml, under  *)
(* SpecDrm                                                                   *)

DrmStage == pc = "detect_drm"

(* C27: detect_drm returns None when META-INF/encryption.xml is absent,    *)
(* Unknown when it is present but not readable as UTF-8 text, and Unknown  *)
(* whenever XML parsing fails with no Adobe or Kobo substring present,     *)
(* even if an algorithm outside the font-obfuscation set was read before   *)
(* the failure; it never fails open and never appends a warning.            *)
C27_DrmNeverFails ==
    /\ [](Ran("detect_drm") =>
            /\ Scanned
            /\ ~HasEntry(fs, n_encryption) => Returned.book.drm_status = DrmNone
            /\ (HasEntry(fs, n_encryption) /\ ~EncryptionReadable)
                  => Returned.book.drm_status = DrmUnknown
            /\ (EncryptionReadable /\ ~HoldsAdobe /\ ~HoldsKobo /\ ~EncryptionParses)
                  => Returned.book.drm_status = DrmUnknown)
    /\ [][DrmStage => (warnings' = warnings /\ result'[1].ok
                       /\ result'[1].book.warnings = warnings)]_vars

\* open returned Unknown for an encryption.xml whose syntax error comes
\* after an algorithm outside the font-obfuscation set
C27_Witness ==
    /\ Scanned
    /\ EncryptionReadable
    /\ ~HoldsAdobe
    /\ ~HoldsKobo
    /\ Len(EncryptionEvents) >= 2
    /\ EncryptionEvents[2].type = "Err"
    /\ AlgorithmValues(EncryptionEvents, 1) = <<a_aes>>
    /\ Returned.book.drm_status = DrmUnknown

----------------------------------------------------------------------------
(* The DRM statuses open produces, under SpecDrm *)

\* the Algorithm values that occur in encryption.xml
OccurringAlgorithms ==
    IF EncryptionReadable
    THEN {AttrOf(EncryptionEvents[k], "Algorithm") :
             k \in {n \in 1..Len(EncryptionEvents) :
                       HasAttr(EncryptionEvents[n], "Algorithm")}}
    ELSE {}

(* C28: the DRM status produced by open is always one of None, Unknown,    *)
(* Protected(AdobeAdept), Protected(KoboProtected) or Protected(Other(u))  *)
(* with u an Algorithm attribute value that occurs in encryption.xml and   *)
(* lies outside the font-obfuscation set; Protected(AmazonKindle) and the  *)
(* placeholder Protected(Other("unknown")) are never produced.              *)
C28_DrmStatusRange ==
    Scanned =>
        LET d == Returned.book.drm_status
        IN  \/ d = DrmNone
            \/ d = DrmUnknown
            \/ d = Protected("AdobeAdept", <<>>)
            \/ d = Protected("KoboProtected", <<>>)
            \/ /\ d.status = "Protected"
               /\ d.scheme = "Other"
               /\ d.other \in OccurringAlgorithms \ FontObfuscation
               /\ d.other /= <<"unknown">>

\* open returned Other(u), u read between two font-obfuscation values
C28_Witness ==
    /\ Scanned
    /\ EncryptionReadable
    /\ AlgorithmValues(EncryptionEvents, Len(EncryptionEvents)) = <<A_ADOBE_RC, a_aes, A_IDPF>>
    /\ Returned.book.drm_status = Protected("Other", a_aes)

----------------------------------------------------------------------------
(* SpecTrip: open on the paths stem + "." + extension, as ebook-convert    *)
(* builds its output path from a file stem and Format::extension            *)

UpperChar(c) ==
    CASE c = "a" -> "A" [] c = "b" -> "B" [] c = "e" -> "E" [] c = "i" -> "I"
      [] c = "k" -> "K" [] c = "m" -> "M" [] c = "o" -> "O" [] c = "p" -> "P"
      [] c = "u" -> "U" [] c = "w" -> "W" [] c = "z" -> "Z" [] OTHER -> c

\* the letter cases an extension is written in: as it is, upper case, and
\* upper case at the odd places
LetterCases(ext) ==
    {ext,
     [i \in 1..Len(ext) |-> UpperChar(ext[i])],
     [i \in 1..Len(ext) |-> IF i % 2 = 1 THEN UpperChar(ext[i]) ELSE ext[i]]}

st_book == <<"b", "o", "o", "k">>
st_book_kepub == st_book \o <<".", "k", "e", "p", "u", "b">>
st_book_KEPUB == st_book \o <<".", "K", "E", "P", "U", "B">>

\* file stems, as Path::file_stem returns them: no '/', not empty
TripStems ==
    {<<"b">>, st_book, st_book_kepub, st_book_KEPUB, st_book \o <<".", "e", "p", "u", "b">>,
     <<"k", "e", "p", "u", "b">>, <<".">>, <<".", "b">>, <<"a", " ", "b">>}

TripPath(stem, ext) == stem \o <<".">> \o ext

TripPaths ==
    {TripPath(stem, ext) : stem \in TripStems,
                           ext \in UNION {LetterCases(extension(f)) : f \in Format}}

InitTrip ==
    \E p \in TripPaths :
        \/ Start(File(p, "missing", <<>>))
        \/ Start(File(p, "zip", PlainZip))

SpecTrip == InitTrip /\ [][Next]_vars

(* C29: for every Format f and every non-empty file stem, from_path        *)
(* applied to stem + "." + f.extension() returns f, in any letter case of  *)
(* the extension (the canonical extension of each format, the compound     *)
(* kepub.epub included, classifies back to that format).                    *)
C29_ExtensionClassifiesBack ==
    (Len(ran) >= 1) =>
        \A stem \in TripStems, f \in Format :
            \A ext \in LetterCases(extension(f)) :
                fs.path = TripPath(stem, ext) => Classified = Some(f)

\* from_path has classified the stem book.KEPUB with the extension of Epub
\* in upper case, and the answer is Kepub
C29_Witness ==
    /\ Len(ran) >= 1
    /\ fs.path = TripPath(st_book_KEPUB, <<"E", "P", "U", "B">>)
    /\ <<"E", "P", "U", "B">> \in LetterCases(extension("Epub"))
    /\ Classified = Some("Kepub")

\* what from_path does: the extension classifies back to its format but
\* for Epub after a stem that ends in .kepub, which is Kepub
C29_ClassifiesBackButAfterKepub ==
    (Len(ran) >= 1) =>
        \A stem \in TripStems, f \in Format :
            \A ext \in LetterCases(extension(f)) :
                fs.path = TripPath(stem, ext) =>
                    Classified =
                        IF /\ f = "Epub"
                           /\ EndsWithIgnoringCase(stem, <<".", "k", "e", "p", "u", "b">>)
                        THEN Some("Kepub")
                        ELSE Some(f)

====
